---- MODULE Spec2Model ----
(***************************************************************************)
(* kon-blog-api as a state machine: the view-count pipeline (D1 counter    *)
(* store, KV cache, edge cache, per-IP view limiter) and the submission of *)
(* comments (validation, rate limit, spam filter).  One action per I/O     *)
(* step of a route handler: a handler runs from one await to the next      *)
(* without interruption and other requests interleave at the awaits.       *)
(***************************************************************************)
EXTENDS Integers, Sequences, FiniteSets, Bags, TLC

(* ------------------------------ bounds --------------------------------- *)
MaxRequests == 4
WindowRequests == 3
MaxComments == 6
CommentTicks == 1
MaxTicks == 2
RaceRequests == 3
RaceInFlight == 2
ReadRequests == 3
BatchRequests == 4
PopularRequests == 4
PopularTicks == 1
MaxPieces == 2
ThreadRequests == 4
\* comments in one list handed to nestComments
MaxThread == 4
\* reads and views of one slug with the cache expiring
StaleRequests == 4
StaleTicks == 1
\* batch reads through the Cache API, with views in between
EdgeRequests == 4
EdgeTicks == 1
\* views and reads of one slug in flight together, every cache write succeeding
QuietRequests == 3
QuietInFlight == 2
\* views of one slug by one identity, the counter store failing now and then
FailRequests == 3

(* ------------------------- program constants --------------------------- *)
KV_TTL == 604800
VIEW_WINDOW == 300
MAX_SLUG_LENGTH == 500
MAX_BATCH == 100
EDGE_TTL == 60
DEFAULT_LIMIT == 10
MIN_LIMIT == 1
MAX_LIMIT == 100
SECONDS_PER_DAY == 86400
RATE_LIMIT_WINDOW == 60000
RATE_LIMIT_MAX == 5
SPAM_KEYWORD_SCORE == 2
SUSPICIOUS_LINK_SCORE == 3
MANY_LINKS == 3
SHORT_CONTENT == 5
LONG_CONTENT == 5000
ONLY_LINKS_TEXT == 10
ONLY_LINKS_SCORE == 3
SPAM_THRESHOLD == 3
MAX_NAME_LENGTH == 50
MAX_CONTENT_LENGTH == 5000

(* ------------------------------ strings -------------------------------- *)
\* A string is the sequence of its character codes.
CH_SPACE == 32
CH_DOT == 46
CH_SLASH == 47
CH_COMMA == 44
CH_MINUS == 45
CH_0 == 48
CH_T == 84
CH_a == 97
CH_b == 98

Repeat(c, n) == [i \in 1..n |-> c]

\* String.prototype.includes("..")
IncludesDotDot(s) == \E i \in 1..(Len(s) - 1) : s[i] = CH_DOT /\ s[i + 1] = CH_DOT

\* String.prototype.startsWith("/")
StartsWithSlash(s) == Len(s) >= 1 /\ s[1] = CH_SLASH

\* JavaScript / SQLite BINARY ordering of two strings: code unit by code unit,
\* a proper prefix sorts first.
RECURSIVE TextLess(_, _)
TextLess(a, b) ==
  IF b = <<>> THEN FALSE
  ELSE IF a = <<>> THEN TRUE
  ELSE IF Head(a) # Head(b) THEN Head(a) < Head(b)
  ELSE TextLess(Tail(a), Tail(b))

TextGreater(a, b) == TextLess(b, a)

\* Number.prototype.toString() of a non-negative integer
RECURSIVE NumberToString(_)
NumberToString(n) ==
  IF n < 10 THEN <<CH_0 + n>> ELSE NumberToString(n \div 10) \o <<CH_0 + (n % 10)>>

NaN == -2147483647

IsDigit(c) == c >= CH_0 /\ c <= CH_0 + 9

RECURSIVE ReadDigits(_, _)
ReadDigits(str, acc) ==
  IF str = <<>> \/ ~IsDigit(Head(str)) THEN acc
  ELSE ReadDigits(Tail(str), 10 * acc + (Head(str) - CH_0))

\* parseInt(str, 10): an optional sign and the leading run of decimal digits,
\* NaN when there is no digit
parseInt(str) ==
  IF str # <<>> /\ Head(str) = CH_MINUS
    THEN IF Tail(str) = <<>> \/ ~IsDigit(Head(Tail(str))) THEN NaN
         ELSE 0 - ReadDigits(Tail(str), 0)
    ELSE IF str = <<>> \/ ~IsDigit(Head(str)) THEN NaN ELSE ReadDigits(str, 0)

\* String.prototype.split(","): the pieces between the commas, empty ones included
SplitComma(str) ==
  LET commas == SelectSeq([i \in 1..Len(str) |-> i], LAMBDA i : str[i] = CH_COMMA)
      \* where the k-th comma is; 0 and Len(str) + 1 stand for the two ends
      at(k) == IF k = 0 THEN 0 ELSE IF k > Len(commas) THEN Len(str) + 1 ELSE commas[k]
  IN [k \in 1..(Len(commas) + 1) |-> SubSeq(str, at(k - 1) + 1, at(k) - 1)]

\* Array.prototype.filter(Boolean) on strings: the empty string is falsy
FilterBoolean(list) == SelectSeq(list, LAMBDA x : x # <<>>)

RECURSIVE InsertSorted(_, _)
InsertSorted(x, list) ==
  IF list = <<>> THEN <<x>>
  ELSE IF TextLess(x, Head(list)) THEN <<x>> \o list
  ELSE <<Head(list)>> \o InsertSorted(x, Tail(list))

\* Array.prototype.sort() without a comparator: ascending by code units
RECURSIVE SortStrings(_)
SortStrings(list) ==
  IF list = <<>> THEN <<>> ELSE InsertSorted(Head(list), SortStrings(Tail(list)))

\* Array.prototype.join(",")
RECURSIVE JoinComma(_)
JoinComma(list) ==
  IF list = <<>> THEN <<>>
  ELSE IF Len(list) = 1 THEN Head(list)
  ELSE Head(list) \o <<CH_COMMA>> \o JoinComma(Tail(list))

Range(list) == {list[i] : i \in 1..Len(list)}

\* the two lists hold the same elements the same number of times
IsPermutation(a, b) ==
  /\ Len(a) = Len(b)
  /\ \A x \in Range(a) \cup Range(b) :
       Cardinality({i \in 1..Len(a) : a[i] = x}) = Cardinality({i \in 1..Len(b) : b[i] = x})

(* --------------------------- spam filter text -------------------------- *)
\* SPAM_KEYWORDS: viagra, casino, poker, lottery, click here, buy now, make money, earn extra cash, weight loss,
\* diet pill, credit card, free gift, act now, limited time, urgent, winner, congratulations
SPAM_KEYWORDS ==
  <<<<118, 105, 97, 103, 114, 97>>,
    <<99, 97, 115, 105, 110, 111>>,
    <<112, 111, 107, 101, 114>>,
    <<108, 111, 116, 116, 101, 114, 121>>,
    <<99, 108, 105, 99, 107, 32, 104, 101, 114, 101>>,
    <<98, 117, 121, 32, 110, 111, 119>>,
    <<109, 97, 107, 101, 32, 109, 111, 110, 101, 121>>,
    <<101, 97, 114, 110, 32, 101, 120, 116, 114, 97, 32, 99, 97, 115, 104>>,
    <<119, 101, 105, 103, 104, 116, 32, 108, 111, 115, 115>>,
    <<100, 105, 101, 116, 32, 112, 105, 108, 108>>,
    <<99, 114, 101, 100, 105, 116, 32, 99, 97, 114, 100>>,
    <<102, 114, 101, 101, 32, 103, 105, 102, 116>>,
    <<97, 99, 116, 32, 110, 111, 119>>,
    <<108, 105, 109, 105, 116, 101, 100, 32, 116, 105, 109, 101>>,
    <<117, 114, 103, 101, 110, 116>>,
    <<119, 105, 110, 110, 101, 114>>,
    <<99, 111, 110, 103, 114, 97, 116, 117, 108, 97, 116, 105, 111, 110, 115>>>>

\* "http://", "https://", "[url=", "bit.ly", "tinyurl"
STR_HTTP == <<104, 116, 116, 112, 58, 47, 47>>
STR_HTTPS == <<104, 116, 116, 112, 115, 58, 47, 47>>
STR_URL_TAG == <<91, 117, 114, 108, 61>>
STR_BITLY == <<98, 105, 116, 46, 108, 121>>
STR_TINYURL == <<116, 105, 110, 121, 117, 114, 108>>

\* String.prototype.toLowerCase(), on ASCII
ToLowerCase(str) == [i \in 1..Len(str) |-> IF str[i] >= 65 /\ str[i] <= 90 THEN str[i] + 32 ELSE str[i]]

\* sub occurs in str at position i
OccursAt(str, sub, i) ==
  /\ i >= 1
  /\ i + Len(sub) - 1 <= Len(str)
  /\ SubSeq(str, i, i + Len(sub) - 1) = sub

\* String.prototype.includes(sub)
Includes(str, sub) == \E i \in 1..(Len(str) - Len(sub) + 1) : OccursAt(str, sub, i)

\* \s of a regular expression, String.prototype.trim(): ASCII white space and NBSP
IsWhiteSpace(c) == c \in {9, 10, 11, 12, 13, 32, 160}

\* . of a regular expression: anything but a line terminator
IsLineTerminator(c) == c \in {10, 13, 8232, 8233}

\* https?:\/\/ matches at i: the length of the match, 0 for none
SchemeAt(str, i) ==
  IF OccursAt(str, STR_HTTP, i) THEN Len(STR_HTTP)
  ELSE IF OccursAt(str, STR_HTTPS, i) THEN Len(STR_HTTPS)
  ELSE 0

\* http[s]?:\/\/.{0,10}host, case-insensitive, somewhere in str
ShortenerLink(str, host) ==
  LET lower == ToLowerCase(str)
  IN \E i \in 1..Len(str) :
       /\ SchemeAt(lower, i) > 0
       /\ \E gap \in 0..10 :
            /\ \A k \in 1..gap :
                 /\ i + SchemeAt(lower, i) + k - 1 <= Len(str)
                 /\ ~IsLineTerminator(str[i + SchemeAt(lower, i) + k - 1])
            /\ OccursAt(lower, host, i + SchemeAt(lower, i) + gap)

\* SUSPICIOUS_LINKS.test(content)
SuspiciousLink(str) ==
  \/ Includes(ToLowerCase(str), STR_URL_TAG)
  \/ ShortenerLink(str, STR_BITLY)
  \/ ShortenerLink(str, STR_TINYURL)

\* (content.match(/https?:\/\//g) || []).length
LinkCount(str) == Cardinality({i \in 1..Len(str) : SchemeAt(str, i) > 0})

\* position j of str is inside a match of /https?:\/\/\S+/g
InsideLink(str, j) ==
  \E i \in 1..j :
    /\ SchemeAt(str, i) > 0
    /\ i + SchemeAt(str, i) <= Len(str)
    /\ ~IsWhiteSpace(str[i + SchemeAt(str, i)])
    /\ \A k \in i..j : ~IsWhiteSpace(str[k])

\* content.replace(/https?:\/\/\S+/g, "")
WithoutLinks(str) ==
  LET kept == SelectSeq([j \in 1..Len(str) |-> j], LAMBDA j : ~InsideLink(str, j))
  IN IF LinkCount(str) = 0 THEN str ELSE [k \in 1..Len(kept) |-> str[kept[k]]]

\* String.prototype.trim()
Trim(str) ==
  LET solid == {i \in 1..Len(str) : ~IsWhiteSpace(str[i])}
  IN IF solid = {} THEN <<>>
     ELSE SubSeq(str, CHOOSE i \in solid : \A j \in solid : i <= j,
                      CHOOSE i \in solid : \A j \in solid : i >= j)

\* sanitizeHtml: & < > " ' to their entities
EscapeChar(c) ==
  IF c = 38 THEN <<38, 97, 109, 112, 59>>
  ELSE IF c = 60 THEN <<38, 108, 116, 59>>
  ELSE IF c = 62 THEN <<38, 103, 116, 59>>
  ELSE IF c = 34 THEN <<38, 113, 117, 111, 116, 59>>
  ELSE IF c = 39 THEN <<38, 35, 120, 50, 55, 59>>
  ELSE <<c>>

RECURSIVE sanitizeHtml(_)
sanitizeHtml(str) ==
  IF str = <<>> THEN <<>> ELSE EscapeChar(Head(str)) \o sanitizeHtml(Tail(str))

(* ------------------------------- inputs -------------------------------- *)
SlugA == <<CH_a>>
SlugB == <<CH_b>>
Slugs == {SlugA, SlugB}
BadSlugs == {<<>>, <<CH_DOT, CH_DOT>>, <<CH_a, CH_DOT, CH_DOT, CH_b>>,
             <<CH_SLASH, CH_a>>, Repeat(CH_a, MAX_SLUG_LENGTH + 1)}
Ips == {1, 2}
TickSteps == {1, VIEW_WINDOW - 1}

\* a query parameter or body field: given or not, and its text
BadGetSlugs == {<<>>, Repeat(CH_a, MAX_SLUG_LENGTH + 1)}
Absent == [given |-> FALSE, text |-> <<>>]
Given(text) == [given |-> TRUE, text |-> text]

\* one list of two slugs in its two orders
PairParams == {Given(<<CH_a, CH_COMMA, CH_b>>), Given(<<CH_b, CH_COMMA, CH_a>>)}

\* ?slugs=... of GET /batch
SlugsParams ==
  {Absent, Given(<<CH_a>>), Given(<<CH_a, CH_COMMA, CH_b>>), Given(<<CH_b, CH_COMMA, CH_a>>),
   Given(<<CH_COMMA, CH_b, CH_COMMA>>),
   Given([i \in 1..(2 * MAX_BATCH + 1) |-> IF i % 2 = 1 THEN CH_a ELSE CH_COMMA])}

PairBodies == {<<SlugA, SlugB>>, <<SlugB, SlugA>>}

\* body.slugs of POST /batch
SlugsBodies ==
  {<<>>, <<SlugA, SlugB>>, <<SlugB, SlugA>>, <<SlugB, <<>>, SlugB>>,
   Repeat(SlugA, MAX_BATCH + 1)}

\* body.slugs of POST /batch: two slugs, and one slug that is their comma-joined text
SlugAB == <<CH_a, CH_COMMA, CH_b>>
EdgeBodies == {<<SlugA, SlugB>>, <<SlugAB>>, <<SlugA>>}

\* ?limit=... of GET /popular
LimitParams ==
  {Absent, Given(<<>>), Given(<<CH_0 + 1>>), Given(<<CH_0>>), Given(<<CH_MINUS, CH_0 + 3>>),
   Given(<<CH_0 + 1, CH_0, CH_0 + 1>>), Given(<<CH_a>>)}

\* the JSON body of POST /comments/:slug (no e-mail, no website); parent_id 0 stands
\* for a body without parent_id
NoBody == [author_name |-> <<>>, content |-> <<>>, parent_id |-> 0]
NAME_BOB == <<98, 111, 98>>
CleanContent == <<110, 105, 99, 101, 32, 112, 111, 115, 116, 33>>
SpamContent == <<99, 97, 115, 105, 110, 111, 32, 112, 111, 107, 101, 114>>
CommentBodies ==
  {[author_name |-> NAME_BOB, content |-> CleanContent, parent_id |-> 0],
   [author_name |-> NAME_BOB, content |-> SpamContent, parent_id |-> 0],
   [author_name |-> NAME_BOB, content |-> <<>>, parent_id |-> 0]}
\* a parent_id that names no comment
NoSuchId == 99
\* bodies of replies as well: to comment 1 and to a comment that does not exist
ThreadBodies ==
  CommentBodies
    \cup {[author_name |-> NAME_BOB, content |-> CleanContent, parent_id |-> 1],
          [author_name |-> NAME_BOB, content |-> CleanContent, parent_id |-> NoSuchId]}
\* the :id of the moderation routes
ModerateIds == {1, 2, NoSuchId, NaN}
CommentTickSteps == {20, 60}
\* 23:59:50 of the first day
LateEvening == SECONDS_PER_DAY - 10

\* the pieces comment texts are put together from: "casino", "POKER", "http://a",
\* "http://", "https://bit.ly/x", "[url=", " ", ten spaces, "nice post!"
SpamPieces ==
  {<<99, 97, 115, 105, 110, 111>>, <<80, 79, 75, 69, 82>>, <<104, 116, 116, 112, 58, 47, 47, 97>>, <<104, 116, 116, 112, 58, 47, 47>>,
   <<104, 116, 116, 112, 115, 58, 47, 47, 98, 105, 116, 46, 108, 121, 47, 120>>, <<91, 117, 114, 108, 61>>, <<CH_SPACE>>, Repeat(CH_SPACE, 10),
   CleanContent}

RECURSIVE Concat(_)
Concat(list) == IF list = <<>> THEN <<>> ELSE Head(list) \o Concat(Tail(list))

\* the content argument of checkSpam: up to MaxPieces pieces in a row, four links,
\* the spec's two examples, and a text of more than 5000 characters
SpamContents ==
  {Concat(list) : list \in UNION {[1..n -> SpamPieces] : n \in 0..MaxPieces}}
    \cup {<<104, 116, 116, 112, 58, 47, 47, 97, 32, 104, 116, 116, 112, 58, 47, 47, 98, 32, 104, 116, 116, 112, 58, 47, 47, 99, 32, 104, 116, 116, 112, 58, 47, 47, 100>>,
           <<98, 117, 121, 32, 110, 111, 119, 32, 118, 105, 97, 103, 114, 97, 32, 104, 116, 116, 112, 58, 47, 47, 97, 32, 104, 116, 116, 112, 58, 47, 47, 98, 32, 104, 116, 116, 112, 58, 47, 47, 99, 32, 104, 116, 116, 112, 58, 47, 47, 100>>,
           <<104, 101, 108, 108, 111, 44, 32, 110, 105, 99, 101, 32, 112, 111, 115, 116, 33>>,
           Repeat(CH_a, LONG_CONTENT + 1)}

\* the authorName argument of checkSpam
SpamAuthors == {NAME_BOB, <<99, 97, 115, 105, 110, 111>>}

\* what a call gives back: a number, null, or an exception
Null == [tag |-> "null", v |-> 0]
Some(n) == [tag |-> "some", v |-> n]
Thrown == [tag |-> "throw", v |-> 0]

VARIABLES
  cfg,          \* the scenario: how many requests, how many at a time, how many ticks
  now,          \* wall clock, seconds
  ticks,        \* number of clock advances so far
  page_views,   \* D1 table page_views: slug -> [view_count, updated_at]
  rate_limits,  \* D1 table rate_limits: key -> created_at
  comments,     \* D1 table comments: the rows in id order
  kv,           \* VIEW_KV: cache key -> [value, expiration]
  edge,         \* caches.default: cache key -> [data, expiration]
  tasks,        \* detached executionCtx.waitUntil() cache writes (a bag)
  reqs,         \* requests in flight (a bag)
  nreq,         \* requests received so far
  last,         \* the most recent response
  hist,         \* bookkeeping of the run, read by the properties only
  obs           \* bookkeeping: the last batch response, while nothing has disturbed it

vars ==
  <<cfg, now, ticks, page_views, rate_limits, comments, kv, edge, tasks, reqs, nreq, last,
    hist, obs>>

(* ------------------------------ timestamps ----------------------------- *)
\* SQLite datetime(): 'YYYY-MM-DD HH:MM:SS', as <<date, ' ', time of day>>.
SqliteDatetime(t) == <<t \div SECONDS_PER_DAY, CH_SPACE, t % SECONDS_PER_DAY>>

(* ------------------------------ identity ------------------------------- *)
\* SHA-256 hex digest: one digest per input, distinct inputs never collide here.
hashString(ip) == <<"sha256", ip>>

RateLimitKey(ipHash, slug) == <<ipHash, slug>>

(* --------------------------- PageViewRepository ------------------------ *)
\* variant: INSERT ... VALUES (?, 0) ON CONFLICT(slug) DO UPDATE ... + 1
incrementFromZero(pv, slug, t) ==
  [s \in DOMAIN pv \cup {slug} |->
     IF s = slug
       THEN [view_count |-> IF slug \in DOMAIN pv THEN pv[slug].view_count + 1 ELSE 0,
             updated_at |-> SqliteDatetime(t)]
       ELSE pv[s]]

\* variant: INSERT OR REPLACE INTO page_views (slug, view_count) VALUES (?, 1)
incrementReplace(pv, slug, t) ==
  [s \in DOMAIN pv \cup {slug} |->
     IF s = slug THEN [view_count |-> 1, updated_at |-> SqliteDatetime(t)] ELSE pv[s]]

\* INSERT INTO page_views (slug, view_count) VALUES (?, 1)
\* ON CONFLICT(slug) DO UPDATE SET view_count = view_count + 1
increment(pv, slug, t) ==
  [s \in DOMAIN pv \cup {slug} |->
     IF s = slug
       THEN [view_count |-> IF slug \in DOMAIN pv THEN pv[slug].view_count + 1 ELSE 1,
             updated_at |-> SqliteDatetime(t)]
       ELSE pv[s]]

\* variant: the row is looked up, its view_count is not read
getNoCount(pv, slug) == 0

\* SELECT view_count ...; result?.view_count ?? 0
get(pv, slug) == IF slug \in DOMAIN pv THEN pv[slug].view_count ELSE 0

\* SELECT slug, view_count ... WHERE slug IN (...): only the rows that exist
getMany(pv, slugs) == [s \in Range(slugs) \cap DOMAIN pv |-> pv[s].view_count]

\* variant: ORDER BY view_count DESC, without updated_at
PopularBeforeCountOnly(pv, x, y) == pv[x].view_count >= pv[y].view_count

\* ORDER BY view_count DESC, updated_at DESC: row x may come before row y
PopularBefore(pv, x, y) ==
  \/ pv[x].view_count > pv[y].view_count
  \/ /\ pv[x].view_count = pv[y].view_count
     /\ ~TextLess(pv[x].updated_at, pv[y].updated_at)

\* every order of all the rows the ORDER BY allows
PopularOrders(pv) ==
  {o \in [1..Cardinality(DOMAIN pv) -> DOMAIN pv] :
     /\ \A i, j \in DOMAIN o : i # j => o[i] # o[j]
     /\ \A i, j \in DOMAIN o : i < j => PopularBefore(pv, o[i], o[j])}

\* ... LIMIT ?
getPopular(pv, order, limit) ==
  [i \in 1..(IF limit < Len(order) THEN limit ELSE Len(order)) |->
     [slug |-> order[i], view_count |-> pv[order[i]].view_count]]

(* ------------------------------ validation ----------------------------- *)
\* variant: without the slug.includes("..") test
InvalidPostSlugNoDots(slug) ==
  \/ slug = <<>>
  \/ Len(slug) > MAX_SLUG_LENGTH
  \/ StartsWithSlash(slug)

\* POST /:slug  !slug || slug.length > 500 || slug.includes("..") || slug.startsWith("/")
InvalidPostSlug(slug) ==
  \/ slug = <<>>
  \/ Len(slug) > MAX_SLUG_LENGTH
  \/ IncludesDotDot(slug)
  \/ StartsWithSlash(slug)

\* GET /:slug  !slug || slug.length > 500
InvalidGetSlug(slug) ==
  \/ slug = <<>>
  \/ Len(slug) > MAX_SLUG_LENGTH

\* GET /batch  slugsParam ? slugsParam.split(",").filter(Boolean) : []
QuerySlugs(param) ==
  IF param.given /\ param.text # <<>> THEN FilterBoolean(SplitComma(param.text)) ELSE <<>>

\* slugs.length === 0 || slugs.length > 100
InvalidBatch(slugs) == Len(slugs) = 0 \/ Len(slugs) > MAX_BATCH

\* Math.min(Math.max(parseInt(limitParam || "10", 10), 1), 100); NaN stays NaN
PopularLimit(param) ==
  LET n == parseInt(IF param.given /\ param.text # <<>>
                      THEN param.text ELSE NumberToString(DEFAULT_LIMIT))
  IN IF n = NaN THEN NaN
     ELSE IF n < MIN_LIMIT THEN MIN_LIMIT
     ELSE IF n > MAX_LIMIT THEN MAX_LIMIT
     ELSE n

(* ------------------------------ rate limiter --------------------------- *)
\* variant: WHERE key = ?, without the created_at test
RecentViewAnyAge(rl, key, t) == key \in DOMAIN rl

\* SELECT created_at FROM rate_limits WHERE key = ? AND created_at > datetime('now', '-5 minutes')
RecentView(rl, key, t) ==
  /\ key \in DOMAIN rl
  /\ TextGreater(rl[key], SqliteDatetime(t - VIEW_WINDOW))

\* variant: the record is not written
RecordViewSkipped(rl, key, t) == rl

\* INSERT OR REPLACE INTO rate_limits (key, created_at) VALUES (?, datetime('now'))
RecordView(rl, key, t) ==
  [k \in DOMAIN rl \cup {key} |-> IF k = key THEN SqliteDatetime(t) ELSE rl[k]]

(* -------------------------------- KV ----------------------------------- *)
\* `${KV_PREFIX}${slug}`
KvKey(slug) == <<"views:v1:", slug>>

\* variant: the key joined without sort()
KvBatchKeyUnsorted(slugs) == <<"views:batch:v1:", JoinComma(slugs)>>

\* `${KV_BATCH_PREFIX}${slugs.slice().sort().join(',')}`
KvBatchKey(slugs) == <<"views:batch:v1:", JoinComma(SortStrings(slugs))>>

\* `batch:${slugs.slice().sort().join(',')}`
EdgeBatchKey(slugs) == <<"batch:", JoinComma(SortStrings(slugs))>>

\* get(key): <<the stored value>>, or <<>> (null) when there is no live entry
KvGet(store, key, t) ==
  IF key \in DOMAIN store /\ store[key].expiration > t THEN <<store[key].value>> ELSE <<>>

\* variant: put with the max-age of the batch responses in place of expirationTtl
KvPutShortLived(store, key, value, ttl, t) ==
  [k \in DOMAIN store \cup {key} |->
     IF k = key THEN [value |-> value, expiration |-> t + EDGE_TTL] ELSE store[k]]

\* put(key, value, { expirationTtl })
KvPut(store, key, value, ttl, t) ==
  [k \in DOMAIN store \cup {key} |->
     IF k = key THEN [value |-> value, expiration |-> t + ttl] ELSE store[k]]

\* entries past their expiration are gone
KvLive(store, t) == [k \in {x \in DOMAIN store : store[x].expiration > t} |-> store[k]]

\* variant: no try/catch around kv.get
getFromKVUncaught(store, slug, t, ok) ==
  IF ~ok THEN Thrown
  ELSE IF KvGet(store, KvKey(slug), t) # <<>>
    THEN Some(parseInt(KvGet(store, KvKey(slug), t)[1]))
    ELSE Null

\* getFromKV: parseInt of the cached text; a miss or a kv.get exception gives null
getFromKV(store, slug, t, ok) ==
  IF ok /\ KvGet(store, KvKey(slug), t) # <<>>
    THEN Some(parseInt(KvGet(store, KvKey(slug), t)[1]))
    ELSE Null

\* getManyFromKV, the aggregate entry: served only if it has every requested slug;
\* an exception of kv.get or JSON.parse is swallowed
AggregateHit(store, slugs, t, ok) ==
  /\ ok
  /\ KvGet(store, KvBatchKey(slugs), t) # <<>>
  /\ \A i \in 1..Len(slugs) : slugs[i] \in DOMAIN KvGet(store, KvBatchKey(slugs), t)[1]

\* getManyFromKV, the single entries: found[slug] for the hits
FoundInKV(store, slugs, t, oks) ==
  [s \in {x \in Range(slugs) : getFromKV(store, x, t, oks[x]).tag = "some"} |->
     getFromKV(store, s, t, oks[s]).v]

\* variant: { ...found, ...dbResults }, without the ?? 0 for the slugs in neither
MergeViewsNoDefault(slugs, found, dbResults) ==
  [s \in DOMAIN found \cup DOMAIN dbResults |->
     IF s \in DOMAIN found THEN found[s] ELSE dbResults[s]]

\* result[slug] = found[slug] ?? dbResults[slug] ?? 0, on top of { ...found }
MergeViews(slugs, found, dbResults) ==
  [s \in Range(slugs) \cup DOMAIN found |->
     IF s \in DOMAIN found THEN found[s]
     ELSE IF s \in DOMAIN dbResults THEN dbResults[s]
     ELSE 0]

\* result[slug] = views[slug] ?? 0
FillViews(slugs, views) ==
  [s \in Range(slugs) |-> IF s \in DOMAIN views THEN views[s] ELSE 0]

(* ------------------------------ responses ------------------------------ *)
NoResponse ==
  [kind |-> "none", status |-> 0, ip |-> 0, slug |-> <<>>, count |-> 0,
   cached |-> FALSE, src |-> "none", kvFailed |-> {}, store |-> <<>>,
   slugs |-> <<>>, views |-> <<>>, key |-> <<>>, articles |-> <<>>, limit |-> 0,
   comment |-> [id |-> 0, status |-> "none"]]

\* bookkeeping: the counters of these slugs as the response leaves
StoreOf(pv, slugs) == [s \in slugs \cap DOMAIN pv |-> pv[s].view_count]

Response(r, status, count, cached, src, pv) ==
  [NoResponse EXCEPT !.kind = r.kind, !.status = status, !.ip = r.ip, !.slug = r.slug,
                     !.count = count, !.cached = cached, !.src = src,
                     !.kvFailed = r.kvFailed, !.store = StoreOf(pv, {r.slug})]

BatchResponse(r, views, src, pv) ==
  [NoResponse EXCEPT !.kind = r.kind, !.status = 200, !.slugs = r.slugs, !.views = views,
                     !.src = src, !.key = r.key, !.kvFailed = r.kvFailed,
                     !.store = StoreOf(pv, Range(r.slugs))]

Request(kind, pc, ip, slug) ==
  [kind |-> kind, pc |-> pc, ip |-> ip, slug |-> slug, kvFailed |-> {},
   slugs |-> <<>>, key |-> <<>>, found |-> <<>>, body |-> NoBody, id |-> 0]

\* variant: the detached write carries count + 1
KvTaskAhead(slug, count) ==
  [kind |-> "kv", slug |-> slug, count |-> count + 1, key |-> <<>>, data |-> <<>>]

KvTask(slug, count) == [kind |-> "kv", slug |-> slug, count |-> count, key |-> <<>>, data |-> <<>>]
EdgeTask(key, data) == [kind |-> "edge", slug |-> <<>>, count |-> 0, key |-> key, data |-> data]

One(e) == SetToBag({e})

CanAccept == nreq < cfg.requests /\ BagCardinality(reqs) < cfg.conc

\* r moves on to its next await
Goto(r, pc) == reqs' = (reqs (-) One(r)) (+) One([r EXCEPT !.pc = pc])

NoBatch ==
  [set |-> FALSE, kind |-> "none", slugs |-> <<>>, views |-> <<>>, key |-> <<>>,
   failed |-> FALSE]

\* bookkeeping: a store or a cache changed or another request came in, so the next
\* batch request does not follow the last one undisturbed
Disturbed == [batch |-> NoBatch, prev |-> NoBatch, dirty |-> TRUE]

\* bookkeeping of a batch request: its first step, a later step, its response
\* (batch is this response, prev the batch response it follows undisturbed)
\* failed: a cache read of the request threw
BatchBegins == IF cfg.pairs THEN [obs EXCEPT !.dirty = FALSE] ELSE Disturbed
BatchAnswers(dirty, resp) ==
  IF cfg.pairs /\ ~dirty
    THEN [batch |-> [set |-> TRUE, kind |-> resp.kind, slugs |-> resp.slugs,
                     views |-> resp.views, key |-> resp.key,
                     failed |-> resp.kvFailed # {}],
          prev |-> obs.batch,
          dirty |-> FALSE]
    ELSE Disturbed

InitTables ==
  /\ ticks = 0
  /\ page_views = <<>>
  /\ rate_limits = <<>>
  /\ comments = <<>>
  /\ kv = <<>>
  /\ edge = <<>>
  /\ tasks = EmptyBag
  /\ reqs = EmptyBag
  /\ nreq = 0
  /\ last = NoResponse
  /\ hist = [posts |-> [s \in Slugs \cup BadSlugs |-> 0],
             incs |-> [s \in Slugs \cup BadSlugs |-> 0],
             admitAt |-> <<>>, raced |-> FALSE]
  /\ obs = Disturbed

InitStores ==
  /\ now = 0
  /\ InitTables

\* one request at a time, good and bad slugs; detached cache writes run in between
Init ==
  /\ cfg = [requests |-> MaxRequests, conc |-> 1, ticks |-> 0,
            slugs |-> {SlugA}, ips |-> Ips, bad |-> TRUE, pairs |-> FALSE]
  /\ InitStores

\* view requests one at a time, the clock advancing
InitWindow ==
  /\ cfg = [requests |-> WindowRequests, conc |-> 1, ticks |-> MaxTicks,
            slugs |-> {SlugA}, ips |-> Ips, bad |-> FALSE, pairs |-> FALSE]
  /\ InitStores

\* views and reads of one slug, one request at a time; the cache entries may expire
InitStale ==
  /\ cfg = [requests |-> StaleRequests, conc |-> 1, ticks |-> StaleTicks,
            slugs |-> {SlugA}, ips |-> Ips, bad |-> FALSE, pairs |-> FALSE]
  /\ InitStores

\* the routes over the counter store with the Cache API in front of POST /batch
InitEdge ==
  /\ cfg = [requests |-> EdgeRequests, conc |-> 1, ticks |-> EdgeTicks,
            slugs |-> {SlugA}, ips |-> {1}, bad |-> FALSE, pairs |-> FALSE]
  /\ InitStores

\* views and reads of one slug, some in flight together
InitQuiet ==
  /\ cfg = [requests |-> QuietRequests, conc |-> QuietInFlight, ticks |-> 0,
            slugs |-> {SlugA}, ips |-> Ips, bad |-> FALSE, pairs |-> FALSE]
  /\ InitStores

\* views of one slug by one identity, one request at a time
InitFail ==
  /\ cfg = [requests |-> FailRequests, conc |-> 1, ticks |-> 0,
            slugs |-> {SlugA}, ips |-> {1}, bad |-> FALSE, pairs |-> FALSE]
  /\ InitStores

\* concurrent requests
InitRace ==
  /\ cfg = [requests |-> RaceRequests, conc |-> RaceInFlight, ticks |-> 0,
            slugs |-> Slugs, ips |-> Ips, bad |-> FALSE, pairs |-> FALSE]
  /\ InitStores

\* views and batch reads of two slugs, one request at a time
InitBatch ==
  /\ cfg = [requests |-> BatchRequests, conc |-> 1, ticks |-> 0,
            slugs |-> {SlugA}, ips |-> {1}, bad |-> FALSE, pairs |-> TRUE]
  /\ InitStores

\* every route, one request at a time
InitRead ==
  /\ cfg = [requests |-> ReadRequests, conc |-> 1, ticks |-> 0,
            slugs |-> Slugs, ips |-> {1}, bad |-> FALSE, pairs |-> FALSE]
  /\ InitStores

\* views of two slugs and the popular list, one request at a time, the clock advancing
InitPopular ==
  /\ cfg = [requests |-> PopularRequests, conc |-> 1, ticks |-> PopularTicks,
            slugs |-> Slugs, ips |-> Ips, bad |-> FALSE, pairs |-> FALSE]
  /\ InitStores

(* --------------------------- POST /:slug ------------------------------- *)
\* slug validation fails: 400 before anything is read or written
PostSlugInvalid(ip, slug) ==
  /\ CanAccept
  /\ InvalidPostSlug(slug)
  /\ nreq' = nreq + 1
  /\ last' = [NoResponse EXCEPT !.kind = "post", !.status = 400, !.slug = slug]
  /\ obs' = Disturbed
  /\ UNCHANGED <<comments, cfg, now, ticks, page_views, rate_limits, kv, edge, tasks, reqs, hist>>

\* validation passes; checkRateLimit runs its SELECT
PostSlugCheck(ip, slug) ==
  /\ CanAccept
  /\ ~InvalidPostSlug(slug)
  /\ nreq' = nreq + 1
  /\ LET key == RateLimitKey(hashString(ip), slug)
         pc == IF RecentView(rate_limits, key, now) THEN "denied_kv" ELSE "rl_insert"
     IN reqs' = reqs (+) One(Request("post", pc, ip, slug))
  /\ obs' = Disturbed
  /\ UNCHANGED <<comments, cfg, now, ticks, page_views, rate_limits, kv, edge, tasks, last, hist>>

\* checkRateLimit: allowed, INSERT OR REPLACE the record
PostSlugRecord(r) ==
  /\ r.kind = "post" /\ r.pc = "rl_insert"
  /\ rate_limits' = RecordView(rate_limits, RateLimitKey(hashString(r.ip), r.slug), now)
  /\ Goto(r, "increment")
  /\ hist' = [hist EXCEPT !.admitAt =
                [k \in DOMAIN @ \cup {<<r.ip, r.slug>>} |->
                   IF k = <<r.ip, r.slug>> THEN now ELSE @[k]]]
  /\ obs' = Disturbed
  /\ UNCHANGED <<comments, cfg, now, ticks, page_views, kv, edge, tasks, nreq, last>>

\* repo.increment, waitUntil(writeToKV), 200
PostSlugIncrement(r) ==
  /\ r.kind = "post" /\ r.pc = "increment"
  /\ page_views' = increment(page_views, r.slug, now)
  /\ LET count == get(page_views', r.slug)
     IN /\ tasks' = tasks (+) One(KvTask(r.slug, count))
        /\ last' = Response(r, 200, count, FALSE, "db", page_views')
  /\ reqs' = reqs (-) One(r)
  /\ hist' = [hist EXCEPT !.posts[r.slug] = @ + 1, !.incs[r.slug] = @ + 1,
                          !.raced = @ \/ \E o \in BagToSet(reqs (-) One(r)) :
                                            o.pc = "increment" /\ o.slug = r.slug]
  /\ obs' = Disturbed
  /\ UNCHANGED <<comments, cfg, now, ticks, rate_limits, kv, edge, nreq>>

\* denied: getFromKV; a hit answers the request
PostSlugDeniedKv(r) ==
  /\ r.kind = "post" /\ r.pc = "denied_kv"
  /\ \E ok \in BOOLEAN :
       LET value == getFromKV(kv, r.slug, now, ok)
           rr == [r EXCEPT !.kvFailed = IF ok THEN {} ELSE {KvKey(r.slug)}]
       IN IF value.tag = "throw"
            THEN /\ last' = Response(rr, 500, 0, FALSE, "none", page_views)
                 /\ reqs' = reqs (-) One(r)
                 /\ hist' = [hist EXCEPT !.posts[r.slug] = @ + 1]
          ELSE IF value.tag = "some"
            THEN /\ last' = Response(rr, 200, value.v, TRUE, "kv", page_views)
                 /\ reqs' = reqs (-) One(r)
                 /\ hist' = [hist EXCEPT !.posts[r.slug] = @ + 1]
            ELSE /\ reqs' = (reqs (-) One(r)) (+) One([rr EXCEPT !.pc = "denied_db"])
                 /\ UNCHANGED <<last, hist>>
  /\ obs' = Disturbed
  /\ UNCHANGED <<comments, cfg, now, ticks, page_views, rate_limits, kv, edge, tasks, nreq>>

\* denied, cache miss: repo.get
PostSlugDeniedDb(r) ==
  /\ r.kind = "post" /\ r.pc = "denied_db"
  /\ last' = Response(r, 200, get(page_views, r.slug), TRUE, "db", page_views)
  /\ reqs' = reqs (-) One(r)
  /\ hist' = [hist EXCEPT !.posts[r.slug] = @ + 1]
  /\ obs' = Disturbed
  /\ UNCHANGED <<comments, cfg, now, ticks, page_views, rate_limits, kv, edge, tasks, nreq>>

(* ---------------- POST /:slug, a D1 statement throwing ----------------- *)
\* catch (error): 500
ServerError(r) == Response(r, 500, 0, FALSE, "none", page_views)

\* the SELECT of checkRateLimit throws
PostSlugCheckFails(ip, slug) ==
  /\ CanAccept
  /\ ~InvalidPostSlug(slug)
  /\ nreq' = nreq + 1
  /\ last' = ServerError(Request("post", "rl_select", ip, slug))
  /\ hist' = [hist EXCEPT !.posts[slug] = @ + 1]
  /\ obs' = Disturbed
  /\ UNCHANGED <<comments, cfg, now, ticks, page_views, rate_limits, kv, edge, tasks, reqs>>

\* the INSERT OR REPLACE of checkRateLimit throws
PostSlugRecordFails(r) ==
  /\ r.kind = "post" /\ r.pc = "rl_insert"
  /\ reqs' = reqs (-) One(r)
  /\ last' = ServerError(r)
  /\ hist' = [hist EXCEPT !.posts[r.slug] = @ + 1]
  /\ obs' = Disturbed
  /\ UNCHANGED <<comments, cfg, now, ticks, page_views, rate_limits, kv, edge, tasks, nreq>>

\* repo.increment throws, after checkRateLimit has returned allowed
PostSlugIncrementFails(r) ==
  /\ r.kind = "post" /\ r.pc = "increment"
  /\ reqs' = reqs (-) One(r)
  /\ last' = ServerError(r)
  /\ hist' = [hist EXCEPT !.posts[r.slug] = @ + 1]
  /\ obs' = Disturbed
  /\ UNCHANGED <<comments, cfg, now, ticks, page_views, rate_limits, kv, edge, tasks, nreq>>

\* denied, cache miss: repo.get throws
PostSlugDeniedDbFails(r) ==
  /\ r.kind = "post" /\ r.pc = "denied_db"
  /\ reqs' = reqs (-) One(r)
  /\ last' = ServerError(r)
  /\ hist' = [hist EXCEPT !.posts[r.slug] = @ + 1]
  /\ obs' = Disturbed
  /\ UNCHANGED <<comments, cfg, now, ticks, page_views, rate_limits, kv, edge, tasks, nreq>>

(* ------------------- POST /:slug (D1 only, no cache) ------------------- *)
\* validation passes; checkRateLimit runs its SELECT
StorePostCheck(ip, slug) ==
  /\ CanAccept
  /\ ~InvalidPostSlug(slug)
  /\ nreq' = nreq + 1
  /\ LET key == RateLimitKey(hashString(ip), slug)
         pc == IF RecentView(rate_limits, key, now) THEN "denied_db" ELSE "rl_insert"
     IN reqs' = reqs (+) One(Request("dpost", pc, ip, slug))
  /\ obs' = Disturbed
  /\ UNCHANGED <<comments, cfg, now, ticks, page_views, rate_limits, kv, edge, tasks, last, hist>>

\* checkRateLimit: allowed, INSERT OR REPLACE the record
StorePostRecord(r) ==
  /\ r.kind = "dpost" /\ r.pc = "rl_insert"
  /\ rate_limits' = RecordView(rate_limits, RateLimitKey(hashString(r.ip), r.slug), now)
  /\ Goto(r, "increment")
  /\ hist' = [hist EXCEPT !.admitAt =
                [k \in DOMAIN @ \cup {<<r.ip, r.slug>>} |->
                   IF k = <<r.ip, r.slug>> THEN now ELSE @[k]]]
  /\ obs' = Disturbed
  /\ UNCHANGED <<comments, cfg, now, ticks, page_views, kv, edge, tasks, nreq, last>>

\* variant: the increment purges the cached batch responses
StorePostIncrementPurging(r) ==
  /\ r.kind = "dpost" /\ r.pc = "increment"
  /\ page_views' = increment(page_views, r.slug, now)
  /\ last' = Response(r, 200, get(page_views', r.slug), FALSE, "db", page_views')
  /\ reqs' = reqs (-) One(r)
  /\ hist' = [hist EXCEPT !.posts[r.slug] = @ + 1, !.incs[r.slug] = @ + 1]
  /\ obs' = Disturbed
  /\ edge' = <<>>
  /\ UNCHANGED <<comments, cfg, now, ticks, rate_limits, kv, tasks, nreq>>

\* repo.increment, 200
StorePostIncrement(r) ==
  /\ r.kind = "dpost" /\ r.pc = "increment"
  /\ page_views' = increment(page_views, r.slug, now)
  /\ last' = Response(r, 200, get(page_views', r.slug), FALSE, "db", page_views')
  /\ reqs' = reqs (-) One(r)
  /\ hist' = [hist EXCEPT !.posts[r.slug] = @ + 1, !.incs[r.slug] = @ + 1]
  /\ obs' = Disturbed
  /\ UNCHANGED <<comments, cfg, now, ticks, rate_limits, kv, edge, tasks, nreq>>

\* denied: repo.get, 200 with cached: true
StorePostDenied(r) ==
  /\ r.kind = "dpost" /\ r.pc = "denied_db"
  /\ last' = Response(r, 200, get(page_views, r.slug), TRUE, "db", page_views)
  /\ reqs' = reqs (-) One(r)
  /\ hist' = [hist EXCEPT !.posts[r.slug] = @ + 1]
  /\ obs' = Disturbed
  /\ UNCHANGED <<comments, cfg, now, ticks, page_views, rate_limits, kv, edge, tasks, nreq>>

(* ---------------------------- GET /:slug ------------------------------- *)
GetSlugInvalid(slug) ==
  /\ CanAccept
  /\ InvalidGetSlug(slug)
  /\ nreq' = nreq + 1
  /\ last' = [NoResponse EXCEPT !.kind = "get", !.status = 400, !.slug = slug]
  /\ obs' = Disturbed
  /\ UNCHANGED <<comments, cfg, now, ticks, page_views, rate_limits, kv, edge, tasks, reqs, hist>>

\* getFromKV; a hit answers the request
GetSlugKv(slug) ==
  /\ CanAccept
  /\ ~InvalidGetSlug(slug)
  /\ nreq' = nreq + 1
  /\ \E ok \in BOOLEAN :
       LET value == getFromKV(kv, slug, now, ok)
           r == [Request("get", "get_db", 0, slug) EXCEPT
                   !.kvFailed = IF ok THEN {} ELSE {KvKey(slug)}]
       IN IF value.tag = "throw"
            THEN /\ last' = Response(r, 500, 0, FALSE, "none", page_views)
                 /\ UNCHANGED reqs
          ELSE IF value.tag = "some"
            THEN /\ last' = Response(r, 200, value.v, FALSE, "kv", page_views)
                 /\ UNCHANGED reqs
            ELSE /\ reqs' = reqs (+) One(r)
                 /\ UNCHANGED last
  /\ obs' = Disturbed
  /\ UNCHANGED <<comments, cfg, now, ticks, page_views, rate_limits, kv, edge, tasks, hist>>

\* cache miss: repo.get, waitUntil(writeToKV), 200
GetSlugDb(r) ==
  /\ r.kind = "get" /\ r.pc = "get_db"
  /\ LET count == get(page_views, r.slug)
     IN /\ tasks' = tasks (+) One(KvTask(r.slug, count))
        /\ last' = Response(r, 200, count, FALSE, "db", page_views)
  /\ reqs' = reqs (-) One(r)
  /\ obs' = Disturbed
  /\ UNCHANGED <<comments, cfg, now, ticks, page_views, rate_limits, kv, edge, nreq, hist>>

(* ---------------------------- GET /batch ------------------------------- *)
\* slugs outside 1..100: 400
GetBatchInvalid(param) ==
  /\ CanAccept
  /\ InvalidBatch(QuerySlugs(param))
  /\ nreq' = nreq + 1
  /\ last' = [NoResponse EXCEPT !.kind = "batch", !.status = 400]
  /\ obs' = Disturbed
  /\ UNCHANGED <<comments, cfg, now, ticks, page_views, rate_limits, kv, edge, tasks, reqs, hist>>

\* getManyFromKV: kv.get of the aggregate key; a complete aggregate answers the request
GetBatchAggregate(param) ==
  /\ CanAccept
  /\ ~InvalidBatch(QuerySlugs(param))
  /\ nreq' = nreq + 1
  /\ \E ok \in BOOLEAN :
       LET slugs == QuerySlugs(param)
           r == [Request("batch", "batch_kv", 0, <<>>) EXCEPT
                   !.slugs = slugs, !.key = KvBatchKey(slugs),
                   !.kvFailed = IF ok THEN {} ELSE {KvBatchKey(slugs)}]
       IN IF AggregateHit(kv, slugs, now, ok)
            THEN LET resp == BatchResponse(r, MergeViews(slugs,
                                 KvGet(kv, KvBatchKey(slugs), now)[1], <<>>),
                                 "aggregate", page_views)
                 IN /\ last' = resp
                    /\ obs' = BatchAnswers(FALSE, resp)
                    /\ UNCHANGED reqs
            ELSE /\ reqs' = reqs (+) One(r)
                 /\ obs' = BatchBegins
                 /\ UNCHANGED last
  /\ UNCHANGED <<comments, cfg, now, ticks, page_views, rate_limits, kv, edge, tasks, hist>>

\* getManyFromKV: Promise.all of getFromKV per slug; nothing missing answers the request
GetBatchSingles(r) ==
  /\ r.kind = "batch" /\ r.pc = "batch_kv"
  /\ \E oks \in [Range(r.slugs) -> BOOLEAN] :
       LET found == FoundInKV(kv, r.slugs, now, oks)
           rr == [r EXCEPT !.found = found,
                           !.kvFailed = @ \cup {KvKey(s) : s \in {x \in Range(r.slugs) : ~oks[x]}}]
       IN IF Range(r.slugs) \subseteq DOMAIN found
            THEN LET resp == BatchResponse(rr, MergeViews(r.slugs, found, <<>>), "kv",
                                           page_views)
                 IN /\ last' = resp
                    /\ reqs' = reqs (-) One(r)
                    /\ obs' = BatchAnswers(obs.dirty, resp)
            ELSE /\ reqs' = (reqs (-) One(r)) (+) One([rr EXCEPT !.pc = "batch_db"])
                 /\ UNCHANGED obs
                 /\ UNCHANGED last
  /\ UNCHANGED <<comments, cfg, now, ticks, page_views, rate_limits, kv, edge, tasks, nreq, hist>>

\* repo.getMany(missing), waitUntil(writeManyToKV(dbResults)), merge, 200
GetBatchDb(r) ==
  /\ r.kind = "batch" /\ r.pc = "batch_db"
  /\ LET missing == SelectSeq(r.slugs, LAMBDA x : x \notin DOMAIN r.found)
         dbResults == getMany(page_views, missing)
         resp == BatchResponse(r, MergeViews(r.slugs, r.found, dbResults), "mixed", page_views)
     IN /\ tasks' = tasks (+) SetToBag({KvTask(s, dbResults[s]) : s \in DOMAIN dbResults})
        /\ last' = resp
        /\ obs' = BatchAnswers(obs.dirty, resp)
  /\ reqs' = reqs (-) One(r)
  /\ UNCHANGED <<comments, cfg, now, ticks, page_views, rate_limits, kv, edge, nreq, hist>>

(* ---------------------- POST /batch (Cache API) ------------------------ *)
\* body.slugs?.filter(Boolean) ?? [] outside 1..100: 400
PostBatchInvalid(body) ==
  /\ CanAccept
  /\ InvalidBatch(FilterBoolean(body))
  /\ nreq' = nreq + 1
  /\ last' = [NoResponse EXCEPT !.kind = "pbatch", !.status = 400]
  /\ obs' = Disturbed
  /\ UNCHANGED <<comments, cfg, now, ticks, page_views, rate_limits, kv, edge, tasks, reqs, hist>>

\* getCachedResponse: a cached response answers the request
PostBatchMatch(body) ==
  /\ CanAccept
  /\ ~InvalidBatch(FilterBoolean(body))
  /\ nreq' = nreq + 1
  /\ LET slugs == FilterBoolean(body)
         r == [Request("pbatch", "pbatch_db", 0, <<>>) EXCEPT
                 !.slugs = slugs, !.key = EdgeBatchKey(slugs)]
         cached == KvGet(edge, EdgeBatchKey(slugs), now)
     IN IF cached # <<>>
          THEN LET resp == BatchResponse(r, cached[1], "edge", page_views)
               IN /\ last' = resp
                  /\ obs' = BatchAnswers(FALSE, resp)
                  /\ UNCHANGED reqs
          ELSE /\ reqs' = reqs (+) One(r)
               /\ obs' = BatchBegins
               /\ UNCHANGED last
  /\ UNCHANGED <<comments, cfg, now, ticks, page_views, rate_limits, kv, edge, tasks, hist>>

\* repo.getMany(slugs), fill in the zeros, cacheResponse (cache.put detached), 200
PostBatchDb(r) ==
  /\ r.kind = "pbatch" /\ r.pc = "pbatch_db"
  /\ LET resp == BatchResponse(r, FillViews(r.slugs, getMany(page_views, r.slugs)), "db",
                               page_views)
     IN /\ tasks' = tasks (+) One(EdgeTask(r.key, resp.views))
        /\ last' = resp
        /\ obs' = BatchAnswers(obs.dirty, resp)
  /\ reqs' = reqs (-) One(r)
  /\ UNCHANGED <<comments, cfg, now, ticks, page_views, rate_limits, kv, edge, nreq, hist>>

(* ---------------------------- GET /popular ----------------------------- *)
\* repo.getPopular(limit); what D1 does with a NaN limit is not the handler's choice
GetPopular(param) ==
  /\ CanAccept
  /\ nreq' = nreq + 1
  /\ LET limit == PopularLimit(param)
     IN \E order \in PopularOrders(page_views), fails \in BOOLEAN :
          /\ fails => limit = NaN
          /\ last' = IF fails
                       THEN [NoResponse EXCEPT !.kind = "popular", !.status = 500,
                                               !.limit = limit]
                       ELSE [NoResponse EXCEPT
                               !.kind = "popular", !.status = 200, !.limit = limit,
                               !.articles = getPopular(page_views, order,
                                              IF limit = NaN THEN Len(order) ELSE limit)]
  /\ obs' = Disturbed
  /\ UNCHANGED <<comments, cfg, now, ticks, page_views, rate_limits, kv, edge, tasks, reqs, hist>>

(* --------------------------- detached tasks ---------------------------- *)
\* writeToKV: kv.put of count.toString(); an exception is logged and swallowed
writeToKV(t) ==
  /\ t.kind = "kv"
  /\ tasks' = tasks (-) One(t)
  /\ \E ok \in BOOLEAN :
       kv' = IF ok THEN KvPut(kv, KvKey(t.slug), NumberToString(t.count), KV_TTL, now)
                   ELSE kv
  /\ obs' = Disturbed
  /\ UNCHANGED <<comments, cfg, now, ticks, page_views, rate_limits, edge, reqs, nreq, last, hist>>

\* cacheResponse: cache.put of the response, max-age 60
cachePut(t) ==
  /\ t.kind = "edge"
  /\ tasks' = tasks (-) One(t)
  /\ edge' = KvPut(edge, t.key, t.data, EDGE_TTL, now)
  /\ obs' = Disturbed
  /\ UNCHANGED <<comments, cfg, now, ticks, page_views, rate_limits, kv, reqs, nreq, last, hist>>

(* -------------------------------- clock -------------------------------- *)
Tick(d) ==
  /\ ticks < cfg.ticks
  /\ now' = now + d
  /\ ticks' = ticks + 1
  /\ kv' = KvLive(kv, now')
  /\ edge' = KvLive(edge, now')
  /\ obs' = IF kv' = kv /\ edge' = edge THEN obs ELSE Disturbed
  /\ UNCHANGED <<comments, cfg, page_views, rate_limits, tasks, reqs, nreq, last, hist>>

(* ------------------------------ comments ------------------------------- *)
\* Date.prototype.toISOString(): 'YYYY-MM-DDTHH:MM:SS.sssZ', as
\* <<date, 'T', time of day, milliseconds>>
ToISOString(ms) ==
  <<(ms \div 1000) \div SECONDS_PER_DAY, CH_T, (ms \div 1000) % SECONDS_PER_DAY, ms % 1000>>

\* Date.now()
DateNow(t) == t * 1000

\* SELECT COUNT(*) FROM comments WHERE ip_hash = ? AND created_at > ?
\* with ? = new Date(Date.now() - RATE_LIMIT_WINDOW).toISOString()
checkRateLimit(rows, ipHash, t) ==
  LET windowStart == ToISOString(DateNow(t) - RATE_LIMIT_WINDOW)
      count == Cardinality({i \in DOMAIN rows :
                              /\ rows[i].ip_hash = ipHash
                              /\ TextGreater(rows[i].created_at, windowStart)})
  IN [allowed |-> count < RATE_LIMIT_MAX,
      remaining |-> IF RATE_LIMIT_MAX - count > 0 THEN RATE_LIMIT_MAX - count ELSE 0]

\* the score of checkSpam
SpamScore(content) ==
  LET lowerContent == ToLowerCase(content)
      linkCount == LinkCount(content)
      textWithoutLinks == Trim(WithoutLinks(content))
  IN SPAM_KEYWORD_SCORE
       * Cardinality({k \in DOMAIN SPAM_KEYWORDS : Includes(lowerContent, SPAM_KEYWORDS[k])})
     + (IF SuspiciousLink(content) THEN SUSPICIOUS_LINK_SCORE ELSE 0)
     + (IF linkCount > MANY_LINKS THEN linkCount ELSE 0)
     + (IF Len(content) < SHORT_CONTENT THEN 1 ELSE 0)
     + (IF Len(content) > LONG_CONTENT THEN 1 ELSE 0)
     + (IF Len(textWithoutLinks) < ONLY_LINKS_TEXT /\ linkCount > 0
          THEN ONLY_LINKS_SCORE ELSE 0)

\* variant: isSpam when the score is above the threshold
checkSpamAbove(content, authorName) ==
  [isSpam |-> SpamScore(content) > SPAM_THRESHOLD, score |-> SpamScore(content)]

checkSpam(content, authorName) ==
  LET score == SpamScore(content)
  IN [isSpam |-> score >= SPAM_THRESHOLD, score |-> score]

\* submitSchema: author_name 1..50 characters, content 1..5000 characters
ValidBody(body) ==
  /\ Len(body.author_name) >= 1 /\ Len(body.author_name) <= MAX_NAME_LENGTH
  /\ Len(body.content) >= 1 /\ Len(body.content) <= MAX_CONTENT_LENGTH

\* CommentRepository.create: INSERT INTO comments ... RETURNING *
\* (id AUTOINCREMENT, status DEFAULT 'pending', created_at DEFAULT CURRENT_TIMESTAMP)
create(rows, slug, input, ipHash, t) ==
  Append(rows, [id |-> Len(rows) + 1, slug |-> slug, parent_id |-> input.parent_id,
                author_name |-> input.author_name, content |-> input.content,
                status |-> "pending", ip_hash |-> ipHash,
                created_at |-> SqliteDatetime(t)])

\* FOREIGN KEY (parent_id) REFERENCES comments(id), which D1 enforces: a parent_id
\* is NULL (parent_id || null), the id of a row, or the id the inserted row itself gets
\* (SQLite accepts a row that references itself)
ForeignKeyHolds(rows, parent_id) ==
  \/ parent_id = 0
  \/ \E i \in DOMAIN rows : rows[i].id = parent_id
  \/ parent_id = Len(rows) + 1

\* CommentRepository.updateStatus: UPDATE comments SET status = ? WHERE id = ?
updateStatus(rows, id, status) ==
  [i \in DOMAIN rows |-> IF rows[i].id = id THEN [rows[i] EXCEPT !.status = status] ELSE rows[i]]

\* variant: WHERE slug = ?, without the status test
ApprovedRowsAnyStatus(rows, slug) == {i \in DOMAIN rows : rows[i].slug = slug}

\* SELECT * FROM comments WHERE slug = ? AND status = 'approved' ORDER BY created_at ASC:
\* every order of the selected rows the ORDER BY allows
ApprovedRows(rows, slug) ==
  {i \in DOMAIN rows : rows[i].slug = slug /\ rows[i].status = "approved"}
ApprovedOrders(rows, slug) ==
  {o \in [1..Cardinality(ApprovedRows(rows, slug)) -> ApprovedRows(rows, slug)] :
     /\ \A i, j \in DOMAIN o : i # j => o[i] # o[j]
     /\ \A i, j \in DOMAIN o :
          i < j => ~TextLess(rows[o[j]].created_at, rows[o[i]].created_at)}

\* variant: a comment whose parent is not in commentMap is skipped
RECURSIVE NestPassDropOrphans(_, _, _)
NestPassDropOrphans(list, i, acc) ==
  IF i > Len(list) THEN acc
  ELSE LET c == list[i]
       IN IF c.parent_id # 0 /\ c.parent_id \in DOMAIN acc.replies
            THEN NestPassDropOrphans(list, i + 1,
                                     [acc EXCEPT !.replies[c.parent_id] = Append(@, c.id)])
            ELSE IF c.parent_id # 0
                   THEN NestPassDropOrphans(list, i + 1, acc)
                   ELSE NestPassDropOrphans(list, i + 1, [acc EXCEPT !.roots = Append(@, c.id)])

\* variant: replies.unshift(node) in place of replies.push(node)
RECURSIVE NestPassUnshift(_, _, _)
NestPassUnshift(list, i, acc) ==
  IF i > Len(list) THEN acc
  ELSE LET c == list[i]
       IN IF c.parent_id # 0 /\ c.parent_id \in DOMAIN acc.replies
            THEN NestPassUnshift(list, i + 1,
                                 [acc EXCEPT !.replies[c.parent_id] = <<c.id>> \o @])
            ELSE NestPassUnshift(list, i + 1, [acc EXCEPT !.roots = Append(@, c.id)])

\* nestComments, second loop, from the i-th comment on: the node of a comment is pushed
\* to the replies of its parent when parent_id is truthy and commentMap has it, and to
\* rootComments otherwise
RECURSIVE NestPass(_, _, _)
NestPass(list, i, acc) ==
  IF i > Len(list) THEN acc
  ELSE LET c == list[i]
       IN IF c.parent_id # 0 /\ c.parent_id \in DOMAIN acc.replies
            THEN NestPass(list, i + 1, [acc EXCEPT !.replies[c.parent_id] = Append(@, c.id)])
            ELSE NestPass(list, i + 1, [acc EXCEPT !.roots = Append(@, c.id)])

\* the node of comment id with its replies, and theirs
RECURSIVE CommentNode(_, _, _)
CommentNode(list, replies, id) ==
  LET c == list[CHOOSE k \in DOMAIN list : list[k].id = id]
  IN [id |-> id, parent_id |-> c.parent_id, slug |-> c.slug, status |-> c.status,
      replies |-> [k \in 1..Len(replies[id]) |-> CommentNode(list, replies, replies[id][k])]]

\* nestComments: commentMap of every comment with replies: [], then the second loop
nestComments(list) ==
  LET acc == NestPass(list, 1, [replies |-> [id \in {list[k].id : k \in DOMAIN list} |-> <<>>],
                                roots |-> <<>>])
  IN [k \in 1..Len(acc.roots) |-> CommentNode(list, acc.replies, acc.roots[k])]

\* CommentRepository.getBySlug, the rows coming in this order
getBySlug(rows, order) == nestComments([k \in DOMAIN order |-> rows[order[k]]])

\* CommentRepository.countBySlug: SELECT COUNT(*) as count FROM comments
\* WHERE slug = ? AND status = 'approved'
countBySlug(rows, slug) == Cardinality(ApprovedRows(rows, slug))

\* UPDATE comments SET status = 'spam' WHERE id = ?
markSpam(rows, id) ==
  [i \in DOMAIN rows |-> IF rows[i].id = id THEN [rows[i] EXCEPT !.status = "spam"] ELSE rows[i]]

CommentResponse(ip, slug, status, comment) ==
  [NoResponse EXCEPT !.kind = "comment", !.status = status, !.ip = ip, !.slug = slug,
                     !.comment = comment]

ViewsUnchanged == UNCHANGED <<cfg, page_views, rate_limits, kv, edge, tasks, hist, obs>>

\* zValidator("json", submitSchema) fails: 400
SubmitInvalid(ip, slug, body) ==
  /\ CanAccept
  /\ ~ValidBody(body)
  /\ nreq' = nreq + 1
  /\ last' = CommentResponse(ip, slug, 400, NoResponse.comment)
  /\ UNCHANGED <<now, ticks, comments, reqs>>
  /\ ViewsUnchanged

\* hashString, checkRateLimit: 429 when not allowed
SubmitCheck(ip, slug, body) ==
  /\ CanAccept
  /\ ValidBody(body)
  /\ nreq' = nreq + 1
  /\ IF checkRateLimit(comments, hashString(ip), now).allowed
       THEN /\ reqs' = reqs (+) One([Request("comment", "create", ip, slug) EXCEPT
                                       !.body = body])
            /\ UNCHANGED last
       ELSE /\ last' = CommentResponse(ip, slug, 429, NoResponse.comment)
            /\ UNCHANGED reqs
  /\ UNCHANGED <<now, ticks, comments>>
  /\ ViewsUnchanged

\* checkSpam, repo.create; 201 unless the comment is to be marked as spam
SubmitCreate(r) ==
  /\ r.kind = "comment" /\ r.pc = "create"
  /\ LET spamCheck == checkSpam(r.body.content, r.body.author_name)
         rows == create(comments, r.slug,
                        [author_name |-> sanitizeHtml(r.body.author_name),
                         content |-> sanitizeHtml(r.body.content),
                         parent_id |-> r.body.parent_id],
                        hashString(r.ip), now)
         comment == rows[Len(rows)]
     IN IF ~ForeignKeyHolds(comments, r.body.parent_id)
          THEN \* the INSERT throws; catch (error): 500
               /\ UNCHANGED comments
               /\ reqs' = reqs (-) One(r)
               /\ last' = CommentResponse(r.ip, r.slug, 500, NoResponse.comment)
          ELSE /\ comments' = rows
               /\ IF spamCheck.isSpam
                    THEN /\ reqs' = (reqs (-) One(r)) (+)
                                      One([r EXCEPT !.pc = "mark_spam", !.id = comment.id])
                         /\ UNCHANGED last
                    ELSE /\ reqs' = reqs (-) One(r)
                         /\ last' = CommentResponse(r.ip, r.slug, 201,
                                        [id |-> comment.id, status |-> comment.status])
  /\ UNCHANGED <<now, ticks, nreq>>
  /\ ViewsUnchanged

\* UPDATE comments SET status = 'spam' WHERE id = ?; 201
SubmitMarkSpam(r) ==
  /\ r.kind = "comment" /\ r.pc = "mark_spam"
  /\ comments' = markSpam(comments, r.id)
  /\ reqs' = reqs (-) One(r)
  /\ last' = CommentResponse(r.ip, r.slug, 201, [id |-> r.id, status |-> "spam"])
  /\ UNCHANGED <<now, ticks, nreq>>
  /\ ViewsUnchanged

\* POST /admin/api/admin/comments/:id/approve and .../reject, past the Basic Auth:
\* 400 when parseInt(id) is NaN, else updateStatus and 200 (whether or not a row has the id)
Moderate(id, status) ==
  /\ CanAccept
  /\ nreq' = nreq + 1
  /\ comments' = IF id = NaN THEN comments ELSE updateStatus(comments, id, status)
  /\ last' = [NoResponse EXCEPT !.kind = "moderate", !.status = IF id = NaN THEN 400 ELSE 200]
  /\ UNCHANGED <<now, ticks, reqs>>
  /\ ViewsUnchanged

ApproveComment(id) == Moderate(id, "approved")
RejectComment(id) == Moderate(id, "rejected")

\* GET /comments/:slug: repo.getBySlug, 200 with the nested comments and their number
ListComments(slug) ==
  /\ CanAccept
  /\ nreq' = nreq + 1
  /\ \E order \in ApprovedOrders(comments, slug) :
       LET nested == getBySlug(comments, order)
       IN last' = [kind |-> "list", status |-> 200, slug |-> slug,
                   comments |-> nested, total |-> Len(nested)]
  /\ UNCHANGED <<now, ticks, comments, reqs>>
  /\ ViewsUnchanged

\* submissions, moderation and listings of two threads, two requests at a time
InitThread ==
  /\ cfg = [requests |-> ThreadRequests, conc |-> 2, ticks |-> 0,
            slugs |-> Slugs, ips |-> {1}, bad |-> FALSE, pairs |-> FALSE]
  /\ InitStores

NextThread ==
  \/ \E ip \in cfg.ips, slug \in cfg.slugs, body \in ThreadBodies : SubmitInvalid(ip, slug, body)
  \/ \E ip \in cfg.ips, slug \in cfg.slugs, body \in ThreadBodies : SubmitCheck(ip, slug, body)
  \/ \E r \in BagToSet(reqs) : SubmitCreate(r)
  \/ \E r \in BagToSet(reqs) : SubmitMarkSpam(r)
  \/ \E id \in ModerateIds : ApproveComment(id)
  \/ \E id \in ModerateIds : RejectComment(id)
  \/ \E slug \in cfg.slugs : ListComments(slug)

SpecThread == InitThread /\ [][NextThread]_vars

\* comment submissions late in the evening, one request at a time
InitComments ==
  /\ cfg = [requests |-> MaxComments, conc |-> 1, ticks |-> CommentTicks,
            slugs |-> {SlugA}, ips |-> {1}, bad |-> FALSE, pairs |-> FALSE]
  /\ now = LateEvening
  /\ InitTables

NextComments ==
  \/ \E ip \in cfg.ips, slug \in cfg.slugs, body \in CommentBodies : SubmitInvalid(ip, slug, body)
  \/ \E ip \in cfg.ips, slug \in cfg.slugs, body \in CommentBodies : SubmitCheck(ip, slug, body)
  \/ \E r \in BagToSet(reqs) : SubmitCreate(r)
  \/ \E r \in BagToSet(reqs) : SubmitMarkSpam(r)
  \/ \E d \in CommentTickSteps : Tick(d)

SpecComments == InitComments /\ [][NextComments]_vars

\* one comment text waiting for the spam filter
InitSpam ==
  /\ cfg = [requests |-> 1, conc |-> 1, ticks |-> 0,
            slugs |-> {SlugA}, ips |-> {1}, bad |-> FALSE, pairs |-> FALSE]
  /\ now = 0
  /\ ticks = 0
  /\ page_views = <<>>
  /\ rate_limits = <<>>
  /\ comments = <<>>
  /\ kv = <<>>
  /\ edge = <<>>
  /\ tasks = EmptyBag
  /\ \E content \in SpamContents, authorName \in SpamAuthors :
       reqs = One([Request("checkSpam", "score", 1, SlugA) EXCEPT
                     !.body = [author_name |-> authorName, content |-> content]])
  /\ nreq = 1
  /\ last = NoResponse
  /\ hist = [posts |-> [s \in Slugs \cup BadSlugs |-> 0],
             incs |-> [s \in Slugs \cup BadSlugs |-> 0],
             admitAt |-> <<>>, raced |-> FALSE]
  /\ obs = Disturbed

\* const spamCheck = checkSpam(data.content, data.author_name)
ScoreComment(r) ==
  /\ r.kind = "checkSpam"
  /\ reqs' = reqs (-) One(r)
  /\ last' = [kind |-> "checkSpam", content |-> r.body.content,
              authorName |-> r.body.author_name,
              result |-> checkSpam(r.body.content, r.body.author_name)]
  /\ UNCHANGED <<now, ticks, comments, nreq>>
  /\ ViewsUnchanged

NextSpam == \E r \in BagToSet(reqs) : ScoreComment(r)

SpecSpam == InitSpam /\ [][NextSpam]_vars

\* the comment lists handed to nestComments: the comments 1..n, n up to MaxThread, in any
\* order; parent_id is null (0), the id of an earlier comment of the list (AUTOINCREMENT
\* ids, the parent exists when the reply is inserted), the id of the comment itself (the
\* foreign key accepts it), or of a comment not in the list
NestOrders(n) == {f \in [1..n -> 1..n] : \A i, j \in 1..n : i # j => f[i] # f[j]}
NestParents(n) == {g \in [1..n -> 0..n \cup {NoSuchId}] : \A id \in 1..n : g[id] \in {0, NoSuchId} \/ g[id] <= id}
NestComment(id, parent_id) ==
  [id |-> id, parent_id |-> parent_id, slug |-> SlugA, status |-> "approved"]

\* one list of comments waiting for nestComments
InitNest ==
  /\ cfg = [requests |-> 1, conc |-> 1, ticks |-> 0,
            slugs |-> {SlugA}, ips |-> {1}, bad |-> FALSE, pairs |-> FALSE]
  /\ now = 0
  /\ ticks = 0
  /\ page_views = <<>>
  /\ rate_limits = <<>>
  /\ comments = <<>>
  /\ kv = <<>>
  /\ edge = <<>>
  /\ tasks = EmptyBag
  /\ \E n \in 0..MaxThread :
       \E o \in NestOrders(n), p \in NestParents(n) :
         reqs = One([Request("nestComments", "nest", 1, SlugA) EXCEPT
                       !.body = [k \in 1..n |-> NestComment(o[k], p[o[k]])]])
  /\ nreq = 1
  /\ last = NoResponse
  /\ hist = [posts |-> [s \in Slugs \cup BadSlugs |-> 0],
             incs |-> [s \in Slugs \cup BadSlugs |-> 0],
             admitAt |-> <<>>, raced |-> FALSE]
  /\ obs = Disturbed

\* return this.nestComments(results || [])
NestList(r) ==
  /\ r.kind = "nestComments"
  /\ reqs' = reqs (-) One(r)
  /\ last' = [kind |-> "nestComments", input |-> r.body, result |-> nestComments(r.body)]
  /\ UNCHANGED <<now, ticks, comments, nreq>>
  /\ ViewsUnchanged

NextNest == \E r \in BagToSet(reqs) : NestList(r)

SpecNest == InitNest /\ [][NextNest]_vars

(* ---------------------------- specifications --------------------------- *)
\* the slugs a run offers to POST /:slug and to GET /:slug
PostSlugs == cfg.slugs \cup (IF cfg.bad THEN BadSlugs ELSE {})
GetSlugs == cfg.slugs \cup (IF cfg.bad THEN BadGetSlugs ELSE {})

\* POST /:slug with its detached cache writes
NextPosts ==
  \/ \E ip \in cfg.ips, slug \in PostSlugs : PostSlugCheck(ip, slug)
  \/ \E r \in BagToSet(reqs) : PostSlugRecord(r)
  \/ \E r \in BagToSet(reqs) : PostSlugIncrement(r)
  \/ \E r \in BagToSet(reqs) : PostSlugDeniedKv(r)
  \/ \E r \in BagToSet(reqs) : PostSlugDeniedDb(r)
  \/ \E t \in BagToSet(tasks) : writeToKV(t)

\* POST /:slug and GET /:slug
NextViews ==
  \/ NextPosts
  \/ \E slug \in GetSlugs : GetSlugKv(slug)
  \/ \E r \in BagToSet(reqs) : GetSlugDb(r)

Next ==
  \/ NextViews
  \/ \E ip \in cfg.ips, slug \in PostSlugs : PostSlugInvalid(ip, slug)
  \/ \E slug \in GetSlugs : GetSlugInvalid(slug)

NextWindow ==
  \/ NextPosts
  \/ \E d \in TickSteps : Tick(d)

NextRace == NextViews

\* the clock jumps past the expirationTtl of the cache entries
NextStale ==
  \/ NextViews
  \/ Tick(KV_TTL)

NextRead ==
  \/ NextViews
  \/ \E param \in SlugsParams : GetBatchInvalid(param)
  \/ \E param \in SlugsParams : GetBatchAggregate(param)
  \/ \E r \in BagToSet(reqs) : GetBatchSingles(r)
  \/ \E r \in BagToSet(reqs) : GetBatchDb(r)
  \/ \E body \in SlugsBodies : PostBatchInvalid(body)
  \/ \E body \in SlugsBodies : PostBatchMatch(body)
  \/ \E r \in BagToSet(reqs) : PostBatchDb(r)
  \/ \E t \in BagToSet(tasks) : cachePut(t)
  \/ \E param \in LimitParams : GetPopular(param)

NextBatch ==
  \/ NextViews
  \/ \E param \in PairParams : GetBatchAggregate(param)
  \/ \E r \in BagToSet(reqs) : GetBatchSingles(r)
  \/ \E r \in BagToSet(reqs) : GetBatchDb(r)
  \/ \E body \in PairBodies : PostBatchMatch(body)
  \/ \E r \in BagToSet(reqs) : PostBatchDb(r)
  \/ \E t \in BagToSet(tasks) : cachePut(t)

\* the routes over the counter store alone
NextStorePosts ==
  \/ \E ip \in cfg.ips, slug \in PostSlugs : StorePostCheck(ip, slug)
  \/ \E r \in BagToSet(reqs) : StorePostRecord(r)
  \/ \E r \in BagToSet(reqs) : StorePostIncrement(r)
  \/ \E r \in BagToSet(reqs) : StorePostDenied(r)

NextPopular ==
  \/ NextStorePosts
  \/ \E param \in LimitParams : GetPopular(param)
  \/ \E d \in TickSteps : Tick(d)

Spec == Init /\ [][Next]_vars

\* POST /:slug and POST /batch over the counter store and caches.default; the clock
\* jumps past the max-age of the cached responses
NextEdge ==
  \/ NextStorePosts
  \/ \E body \in EdgeBodies : PostBatchMatch(body)
  \/ \E r \in BagToSet(reqs) : PostBatchDb(r)
  \/ \E t \in BagToSet(tasks) : cachePut(t)
  \/ Tick(EDGE_TTL)

SpecEdge == InitEdge /\ [][NextEdge]_vars

\* POST /:slug and GET /:slug; every kv.put of a detached write succeeds
NextQuiet ==
  \/ \E ip \in cfg.ips, slug \in PostSlugs : PostSlugCheck(ip, slug)
  \/ \E r \in BagToSet(reqs) : PostSlugRecord(r)
  \/ \E r \in BagToSet(reqs) : PostSlugIncrement(r)
  \/ \E r \in BagToSet(reqs) : PostSlugDeniedKv(r)
  \/ \E r \in BagToSet(reqs) : PostSlugDeniedDb(r)
  \/ \E slug \in GetSlugs : GetSlugKv(slug)
  \/ \E r \in BagToSet(reqs) : GetSlugDb(r)
  \/ \E t \in BagToSet(tasks) :
       /\ writeToKV(t)
       /\ kv' = KvPut(kv, KvKey(t.slug), NumberToString(t.count), KV_TTL, now)

SpecQuiet == InitQuiet /\ [][NextQuiet]_vars

\* POST /:slug and GET /:slug, each D1 statement of POST /:slug succeeding or throwing
NextFail ==
  \/ NextViews
  \/ \E ip \in cfg.ips, slug \in PostSlugs : PostSlugCheckFails(ip, slug)
  \/ \E r \in BagToSet(reqs) : PostSlugRecordFails(r)
  \/ \E r \in BagToSet(reqs) : PostSlugIncrementFails(r)
  \/ \E r \in BagToSet(reqs) : PostSlugDeniedDbFails(r)

SpecFail == InitFail /\ [][NextFail]_vars

SpecPopular == InitPopular /\ [][NextPopular]_vars

SpecWindow == InitWindow /\ [][NextWindow]_vars

SpecBatch == InitBatch /\ [][NextBatch]_vars

SpecRace == InitRace /\ [][NextRace]_vars

SpecStale == InitStale /\ [][NextStale]_vars

SpecRead == InitRead /\ [][NextRead]_vars

TypeOK ==
  /\ DOMAIN page_views \subseteq Slugs
  /\ nreq \in 0..cfg.requests

(* ------------------------------ properties ----------------------------- *)
\* what the properties read off the state, without the repository
Count(s) == IF s \in DOMAIN page_views THEN page_views[s].view_count ELSE 0
CountAfter(s) == IF s \in DOMAIN page_views' THEN page_views'[s].view_count ELSE 0

\* the counter of s as the response left
SnapCount(resp, s) == IF s \in DOMAIN resp.store THEN resp.store[s] ELSE 0

Denied == {"denied_kv", "denied_db"}

\* this step is a step of request r / request r comes in with this step
StepOf(r) == CopiesIn(r, reqs') < CopiesIn(r, reqs)
Arrives(r) == nreq' = nreq + 1 /\ CopiesIn(r, reqs') > CopiesIn(r, reqs)
Leaves(r) == StepOf(r) /\ BagCardinality(reqs') < BagCardinality(reqs)

\* C1: concurrent increments of one slug lose no update: whatever the interleaving,
\* the counter of every slug is the number of increment calls that completed on it.
C1_NoLostIncrement == \A s \in Slugs : Count(s) = hist.incs[s]

\* two increments of one slug were in flight together, from two identities, and both
\* are counted
C1_Witness ==
  /\ hist.raced
  /\ \E s \in Slugs :
       /\ Count(s) = 2
       /\ {<<1, s>>, <<2, s>>} \subseteq DOMAIN hist.admitAt

\* C2 as written: after N sequential incrementView(s) calls on a slug with no counter,
\* getView(s) returns N.
C2_Original ==
  (last.kind = "get" /\ last.status = 200) => last.count = hist.posts[last.slug]

\* C2 amended: after sequential incrementView(s) calls of which N were admitted by the
\* rate limiter, getView(s) returns N when it reads the counter store, and the cached
\* value, which is at most N, when the cache answers.
C2_AdmittedThenGet ==
  /\ \A s \in Slugs : hist.incs[s] <= hist.posts[s]
  /\ (last.kind = "get" /\ last.status = 200) =>
       /\ last.src = "db" => last.count = hist.incs[last.slug]
       /\ last.src = "kv" => last.count <= hist.incs[last.slug]

\* two admitted calls, then getView answers 2
C2_Witness ==
  /\ last.kind = "get" /\ last.status = 200
  /\ last.count = 2
  /\ hist.posts[last.slug] = 2

\* C3: a view request of identity i for slug s is denied exactly when i's last admitted
\* request for s is less than 5 minutes old; a denied request leaves the counter as it
\* is, an admitted one adds exactly 1.
C3_ViewWindow ==
  [][ /\ \A r \in BagToSet(reqs') :
           (r.kind = "post" /\ Arrives(r)) =>
             (r.pc = "denied_kv" <=>
                /\ <<r.ip, r.slug>> \in DOMAIN hist.admitAt
                /\ now - hist.admitAt[<<r.ip, r.slug>>] < VIEW_WINDOW)
      /\ \A r \in BagToSet(reqs) :
           (r.kind = "post" /\ StepOf(r)) =>
             /\ r.pc \in Denied =>
                  /\ page_views' = page_views
                  /\ Leaves(r) => (last'.cached /\ last'.status = 200)
             /\ r.pc = "increment" =>
                  /\ CountAfter(r.slug) = Count(r.slug) + 1
                  /\ last'.count = CountAfter(r.slug)
                  /\ ~last'.cached
    ]_vars

\* one identity: admitted at 0, denied at 299 s, admitted again at 300 s
C3_Witness ==
  /\ now = VIEW_WINDOW
  /\ last.kind = "post" /\ last.status = 200 /\ ~last.cached /\ last.count = 2
  /\ hist.posts[last.slug] = 3
  /\ Cardinality(DOMAIN rate_limits) = 1

\* the second a created_at text stands for
SecondOf(text) == text[1] * 86400 + text[3]

\* the comments of this identity persisted within the last 60 seconds
RecentComments(ip) ==
  Cardinality({i \in DOMAIN comments :
                 /\ comments[i].ip_hash = hashString(ip)
                 /\ now - SecondOf(comments[i].created_at) < 60})

\* C4: when 5 comments of an identity were persisted within the last 60 seconds, its
\* next submitComment is rejected with 429 and persists no row; it is admitted again
\* as soon as fewer than 5 of its comments fall inside the last 60 seconds.
C4_CommentWindow ==
  [][ /\ \A r \in BagToSet(reqs') :
           (r.kind = "comment" /\ Arrives(r)) => RecentComments(r.ip) < 5
      /\ (nreq' = nreq + 1 /\ reqs' = reqs /\ last'.kind = "comment" /\ last'.status = 429) =>
           /\ RecentComments(last'.ip) >= 5
           /\ comments' = comments
    ]_vars

\* a denied request answers / a step of a denied request
DeniedAnswer == last.kind = "post" /\ last.cached
DeniedStep ==
  \/ \E r \in BagToSet(reqs) : r.kind = "post" /\ r.pc \in Denied /\ StepOf(r)
  \/ \E r \in BagToSet(reqs') : r.kind = "post" /\ r.pc \in Denied /\ Arrives(r)
WritesNothing == UNCHANGED <<page_views, rate_limits, kv, edge, tasks>>

\* C5 as written: a denied view request gets a success response carrying the store's
\* current count, and writes nothing.
C5_Original ==
  /\ [](DeniedAnswer => (last.status = 200 /\ last.count = SnapCount(last, last.slug)))
  /\ [][DeniedStep => WritesNothing]_vars

\* C5 amended: a denied view request gets a success response carrying the count of the
\* slug's cache entry when that entry can be read, and the store's current count
\* otherwise; the count is never above the store's; the request writes nothing.
C5_DeniedAnswer ==
  /\ [](DeniedAnswer =>
          /\ last.status = 200
          /\ last.src \in {"kv", "db"}
          /\ last.src = "db" => last.count = SnapCount(last, last.slug)
          /\ last.src = "kv" =>
               /\ last.kvFailed = {}
               /\ last.count <= SnapCount(last, last.slug)
          /\ last.kvFailed # {} => last.src = "db")
  /\ [][ /\ DeniedStep => WritesNothing
         /\ \A r \in BagToSet(reqs) :
              (r.kind = "post" /\ r.pc \in Denied /\ Leaves(r)) =>
                /\ last'.status = 200 /\ last'.cached /\ last'.slug = r.slug
                /\ last'.src = "kv" =>
                     /\ KvKey(r.slug) \in DOMAIN kv
                     /\ kv[KvKey(r.slug)].value = NumberToString(last'.count)
       ]_vars

\* a denied request answered from a cache entry older than the counter
C5_Witness ==
  /\ DeniedAnswer /\ last.status = 200
  /\ last.src = "kv"
  /\ last.count < SnapCount(last, last.slug)

BatchPair ==
  /\ obs.batch.set /\ obs.prev.set
  /\ obs.batch.kind = obs.prev.kind
  /\ IsPermutation(obs.prev.slugs, obs.batch.slugs)
SameAnswer ==
  /\ obs.batch.views = obs.prev.views
  /\ obs.batch.key = obs.prev.key

RejectedSlug(slug) ==
  \/ Len(slug) = 0
  \/ Len(slug) > 500
  \/ \E i \in 1..(Len(slug) - 1) : slug[i] = CH_DOT /\ slug[i + 1] = CH_DOT
  \/ (Len(slug) > 0 /\ slug[1] = CH_SLASH)

\* C8: incrementView answers 400 to a slug that is empty, longer than 500 characters,
\* contains ".." or begins with "/", and the rejected request changes no state.
C8_InvalidSlugRejected ==
  [][ /\ \A r \in BagToSet(reqs') :
           (r.kind = "post" /\ Arrives(r)) => ~RejectedSlug(r.slug)
      /\ (nreq' = nreq + 1 /\ reqs' = reqs /\ last'.kind = "post" /\ last'.status = 400) =>
           /\ RejectedSlug(last'.slug)
           /\ UNCHANGED <<page_views, rate_limits, kv, edge, tasks, hist>>
    ]_vars

\* a slug with ".." was rejected while a counter and a cache entry exist
C8_Witness ==
  /\ last.kind = "post" /\ last.status = 400
  /\ IncludesDotDot(last.slug)
  /\ page_views # <<>> /\ kv # <<>>

C10_CounterMonotone ==
  /\ [](\A s \in DOMAIN page_views : page_views[s].view_count >= 0)
  /\ [][ /\ \A s \in DOMAIN page_views :
              /\ s \in DOMAIN page_views'
              /\ page_views'[s].view_count >= page_views[s].view_count
         /\ page_views' # page_views =>
              \E r \in BagToSet(reqs) :
                /\ r.kind = "post" /\ r.pc = "increment" /\ StepOf(r)
                /\ CountAfter(r.slug) = Count(r.slug) + 1
                /\ \A s \in (DOMAIN page_views \cup DOMAIN page_views') \ {r.slug} :
                     CountAfter(s) = Count(s)
       ]_vars

\* a counter was created at 1 and the popular list then read it
C10_Witness ==
  /\ last.kind = "popular" /\ last.status = 200
  /\ Len(last.articles) = 1
  /\ last.articles[1].view_count = 1
  /\ Count(last.articles[1].slug) = 1

\* GET /popular answers the list with this step
PopularAnswers ==
  /\ nreq' = nreq + 1
  /\ last'.kind = "popular" /\ last'.status = 200 /\ last'.limit # NaN

\* C11: getPopular(n) returns at most n (slug, count) pairs taken from the counter
\* store, by count descending and, among equal counts, the most recently updated first;
\* no counter left out has a strictly larger count than one that is included.
C11_PopularOrder ==
  [][ PopularAnswers =>
        LET a == last'.articles
            listed == {a[i].slug : i \in DOMAIN a}
        IN /\ Len(a) <= last'.limit
           /\ \A i \in DOMAIN a :
                /\ a[i].slug \in DOMAIN page_views
                /\ a[i].view_count = page_views[a[i].slug].view_count
           /\ \A i, j \in DOMAIN a :
                i < j =>
                  /\ a[i].slug # a[j].slug
                  /\ a[i].view_count >= a[j].view_count
                  /\ a[i].view_count = a[j].view_count =>
                       SecondOf(page_views[a[i].slug].updated_at)
                         >= SecondOf(page_views[a[j].slug].updated_at)
           /\ \A s \in DOMAIN page_views \ listed :
                \A i \in DOMAIN a : page_views[s].view_count <= a[i].view_count
    ]_vars

\* two counters at 1, the list limited to one: the one updated later is returned
C11_Witness ==
  /\ last.kind = "popular" /\ last.status = 200 /\ last.limit = 1
  /\ Len(last.articles) = 1
  /\ \E s \in DOMAIN page_views :
       /\ s # last.articles[1].slug
       /\ page_views[s].view_count = 1
       /\ last.articles[1].view_count = 1
       /\ Count(last.articles[1].slug) = 1
       /\ SecondOf(page_views[s].updated_at)
            < SecondOf(page_views[last.articles[1].slug].updated_at)

\* C12: for every value of the limit parameter of getPopular (absent, empty, a number
\* in or out of range, text that is no number) the limit handed to the counter store
\* is an integer in 1..100; it is 10 when the parameter is absent.
C12_LimitInRange ==
  /\ PopularLimit(Absent) = 10
  /\ last.kind = "popular" => last.limit \in 1..100

\* the rule weights of the spam scorer, as the specification states them
KeywordHits(content) ==
  Cardinality({k \in DOMAIN SPAM_KEYWORDS : Includes(ToLowerCase(content), SPAM_KEYWORDS[k])})
RuleScore(content, remaining) ==
  2 * KeywordHits(content)
  + (IF SuspiciousLink(content) THEN 3 ELSE 0)
  + (IF LinkCount(content) > 3 THEN LinkCount(content) ELSE 0)
  + (IF Len(content) < 5 THEN 1 ELSE 0)
  + (IF Len(content) > 5000 THEN 1 ELSE 0)
  + (IF LinkCount(content) > 0 /\ Len(remaining) < 10 THEN 3 ELSE 0)

\* the text left when every link, http:// or https:// with the characters up to the
\* next white space, is taken out
InsideAnyLink(str, j) ==
  \E i \in 1..j : SchemeAt(str, i) > 0 /\ \A k \in i..j : ~IsWhiteSpace(str[k])
TextLeft(str) ==
  LET kept == SelectSeq([j \in 1..Len(str) |-> j], LAMBDA j : ~InsideAnyLink(str, j))
  IN IF LinkCount(str) = 0 THEN str ELSE [k \in 1..Len(kept) |-> str[kept[k]]]

Scored == last.kind = "checkSpam"

\* C13 as written: checkSpam returns the sum of the rule weights, the last rule on the
\* text left after removing all links, and isSpam exactly when the score is >= 3.
C13_Original ==
  Scored =>
    /\ last.result.score = RuleScore(last.content, TextLeft(last.content))
    /\ last.result.isSpam <=> last.result.score >= 3

\* C13 amended: the same, the last rule on the text left after removing every link
\* that has at least one character after its "//" and trimming the white space at
\* both ends.
C13_RuleScore ==
  Scored =>
    /\ last.result.score \in Nat
    /\ last.result.score = RuleScore(last.content, Trim(WithoutLinks(last.content)))
    /\ last.result.isSpam <=> last.result.score >= 3

\* a text with a link tag and nothing else scores exactly 3 and is spam
C13_Witness ==
  /\ Scored
  /\ last.result.score = 3 /\ last.result.isSpam
  /\ KeywordHits(last.content) = 0 /\ LinkCount(last.content) = 0

\* C14: spam classification is not an error: an admitted, valid submitComment always
\* persists exactly one comment row and answers 201; the persisted and the returned
\* status is 'spam' when checkSpam reports isSpam on the submitted content and 'pending'
\* otherwise; no submission makes a comment 'approved'.
C14_SpamIsNoError ==
  [][ \A r \in BagToSet(reqs) :
        (r.kind = "comment" /\ StepOf(r)) =>
          /\ r.pc = "create" =>
               /\ Len(comments') = Len(comments) + 1
               /\ SubSeq(comments', 1, Len(comments)) = comments
               /\ comments'[Len(comments')].slug = r.slug
               /\ comments'[Len(comments')].status = "pending"
          /\ r.pc = "mark_spam" =>
               /\ Len(comments') = Len(comments)
               /\ \A i \in DOMAIN comments :
                    comments'[i] = IF comments[i].id = r.id
                                     THEN [comments[i] EXCEPT !.status = "spam"]
                                     ELSE comments[i]
          /\ Leaves(r) =>
               /\ last'.kind = "comment" /\ last'.status = 201
               /\ last'.comment.status =
                    IF checkSpam(r.body.content, r.body.author_name).isSpam
                      THEN "spam" ELSE "pending"
               /\ \E i \in DOMAIN comments' :
                    /\ comments'[i].id = last'.comment.id
                    /\ comments'[i].status = last'.comment.status
          /\ \A i \in DOMAIN comments' :
               comments'[i].status = "approved" =>
                 (i \in DOMAIN comments /\ comments[i].status = "approved")
    ]_vars

\* the ids of the comments in a nested list, and how many nodes it has
RECURSIVE TreeIds(_)
TreeIds(nodes) ==
  UNION {{nodes[k].id} \cup TreeIds(nodes[k].replies) : k \in DOMAIN nodes}
RECURSIVE TreeSize(_)
TreeSize(nodes) ==
  IF nodes = <<>> THEN 0
  ELSE 1 + TreeSize(Head(nodes).replies) + TreeSize(Tail(nodes))

\* C15: listComments(slug) contains a comment exactly when the comment belongs to the
\* slug and its status is 'approved' (each such comment once): a pending, spam or
\* rejected comment is not listed.
C15_ListedIffApproved ==
  [][ \A slug \in Slugs :
        ListComments(slug) =>
          /\ TreeIds(last'.comments) =
               {comments[i].id : i \in {k \in DOMAIN comments :
                                          /\ comments[k].slug = slug
                                          /\ comments[k].status = "approved"}}
          /\ TreeSize(last'.comments) = Cardinality(TreeIds(last'.comments))
    ]_vars

\* a thread listed with an approved comment while another comment of the thread is
\* not approved
C15_Witness ==
  /\ last.kind = "list"
  /\ TreeIds(last.comments) # {}
  /\ \E i, j \in DOMAIN comments :
       /\ comments[i].slug = last.slug /\ comments[i].status = "approved"
       /\ comments[i].id \in TreeIds(last.comments)
       /\ comments[j].slug = last.slug /\ comments[j].status # "approved"
       /\ comments[j].id \notin TreeIds(last.comments)

\* every node of a nested list
RECURSIVE TreeNodes(_)
TreeNodes(nodes) ==
  UNION {{nodes[k]} \cup TreeNodes(nodes[k].replies) : k \in DOMAIN nodes}

InputIds(list) == {list[k].id : k \in DOMAIN list}
InputPos(list, id) == CHOOSE k \in DOMAIN list : list[k].id = id
RootIds(nodes) == {nodes[k].id : k \in DOMAIN nodes}

ExampleInput == <<NestComment(1, 0), NestComment(2, 1), NestComment(3, NoSuchId)>>
ExampleNode(id, parent_id, replies) ==
  [id |-> id, parent_id |-> parent_id, slug |-> SlugA, status |-> "approved",
   replies |-> replies]

\* commentMap after the second loop of nestComments: the replies pushed to each comment
CommentMap(list) ==
  NestPass(list, 1, [replies |-> [id \in InputIds(list) |-> <<>>], roots |-> <<>>]).replies

\* C16: nestComments makes a comment a root when its parent_id is null or names no comment
\* of the input (it is in the result, and a reply of nothing), and a reply of exactly the
\* comment its parent_id names otherwise (and no root); the replies of every returned
\* comment are those pushed to it; [{1, null}, {2, 1}, {3, 99}] gives the roots 1 (with the
\* reply 2) and 3, in that order.
C16_RootOrReply ==
  last.kind = "nestComments" =>
    LET map == CommentMap(last.input)
        ids == InputIds(last.input)
    IN /\ last.input = ExampleInput =>
            last.result = <<ExampleNode(1, 0, <<ExampleNode(2, 1, <<>>)>>),
                            ExampleNode(3, NoSuchId, <<>>)>>
       /\ \A n \in TreeNodes(last.result) :
            [k \in DOMAIN n.replies |-> n.replies[k].id] = map[n.id]
       /\ \A k \in DOMAIN last.input :
            LET c == last.input[k]
                repliedTo == {p \in ids : \E j \in DOMAIN map[p] : map[p][j] = c.id}
            IN IF c.parent_id = 0 \/ c.parent_id \notin ids
                 THEN /\ Cardinality({j \in DOMAIN last.result : last.result[j].id = c.id}) = 1
                      /\ repliedTo = {}
                 ELSE /\ c.id \notin RootIds(last.result)
                      /\ repliedTo = {c.parent_id}
                      /\ Cardinality({j \in DOMAIN map[c.parent_id] :
                                        map[c.parent_id][j] = c.id}) = 1

\* the list of the example has been nested, giving two roots and one reply
C16_Witness ==
  /\ last.kind = "nestComments"
  /\ last.input = ExampleInput
  /\ Len(last.result) = 2
  /\ last.result[1].id = 1 /\ last.result[2].id = 3
  /\ Len(last.result[1].replies) = 1 /\ last.result[1].replies[1].id = 2

\* the lists of siblings of a nested list: the roots, and the replies of every node
SiblingLists(nodes) == {nodes} \cup {n.replies : n \in TreeNodes(nodes)}

\* C17: any two comments that end up as siblings (both roots, or both replies of the same
\* comment, at any depth) stand in the output in the order they have in the input.
C17_SiblingOrder ==
  last.kind = "nestComments" =>
    \A l \in SiblingLists(last.result) :
      \A i, j \in DOMAIN l :
        i < j <=> InputPos(last.input, l[i].id) < InputPos(last.input, l[j].id)

\* a list nested with two replies of one comment below the first level, handed over in
\* an order that is not the order of the ids
C17_Witness ==
  /\ last.kind = "nestComments"
  /\ \E n \in TreeNodes(last.result) : n.parent_id # 0 /\ Len(n.replies) >= 2
  /\ \E i, j \in DOMAIN last.input : i < j /\ last.input[i].id > last.input[j].id

\* no pending cache write of s and no live cache entry of s holds another count than
\* the counter store
Settled(tk, store, pv, t, s) ==
  LET count == IF s \in DOMAIN pv THEN pv[s].view_count ELSE 0
  IN /\ \A w \in BagToSet(tk) : (w.kind = "kv" /\ w.slug = s) => w.count = count
     /\ \A k \in DOMAIN store :
          (k = KvKey(s) /\ store[k].expiration > t) => store[k].value = NumberToString(count)

\* this step answers a getView with a count
GetAnswers ==
  /\ last'.kind = "get" /\ last'.status = 200
  /\ \/ nreq' = nreq + 1 /\ reqs' = reqs
     \/ \E r \in BagToSet(reqs) : r.kind = "get" /\ Leaves(r)

\* C18 as written: two getView(s) calls with no incrementView(s) call starting or
\* completing between them return the same count (here: two getView answers in a row of
\* requests served one at a time).
C18_Original ==
  [][ (GetAnswers /\ last.kind = "get" /\ last.status = 200 /\ last.slug = last'.slug) =>
        last'.count = last.count ]_vars

\* C18 amended: while no pending cache write and no live cache entry of s holds another
\* count than the counter store, getView(s) answers the store's count, by a cache hit or
\* by a miss, and every step but an increment of s (a write landing, an expiry, a read
\* failure, a write-back of a getView) keeps it so; hence two getView(s) calls with no
\* increment between them return the same count when the first starts in such a state.
C18_SettledIdempotent ==
  [][ \A s \in Slugs :
        Settled(tasks, kv, page_views, now, s) =>
          /\ (GetAnswers /\ last'.slug = s) => last'.count = Count(s)
          /\ (GetAnswers /\ last'.slug = s /\ last.kind = "get" /\ last.status = 200
                /\ last.slug = s /\ last.count = Count(s)) => last'.count = last.count
          /\ CountAfter(s) = Count(s) => Settled(tasks', kv', page_views', now', s)
    ]_vars

\* one view was counted and two getView calls after it missed the cache; both answered 1
\* and their write-backs of 1 are pending next to the view's
C18_Witness ==
  /\ last.kind = "get" /\ last.status = 200 /\ last.slug = SlugA /\ last.count = 1
  /\ hist.incs[SlugA] = 1
  /\ CopiesIn(KvTask(SlugA, 1), tasks) = 3
  /\ Settled(tasks, kv, page_views, now, SlugA)

\* the identities whose view of s the rate limiter has admitted
AdmittedFor(s) == {k \in DOMAIN hist.admitAt : k[2] = s}

\* C19: the rate limiter's SELECT and INSERT OR REPLACE are separate steps, so requests of
\* one identity for one slug that are in flight together can all pass the check: inside
\* one window the views counted for a slug are bounded by the number of admitted
\* identities times the number of requests in flight at a time, not by the number of
\* admitted identities.
C19_AdmittedPerInFlight ==
  \A s \in Slugs :
    (\A k \in AdmittedFor(s) : now - hist.admitAt[k] < VIEW_WINDOW) =>
      Count(s) <= cfg.conc * Cardinality(AdmittedFor(s))

\* two views of one slug are counted inside one window, both of the same identity
C19_Witness ==
  \E s \in Slugs, ip \in Ips :
    /\ AdmittedFor(s) = {<<ip, s>>}
    /\ now - hist.admitAt[<<ip, s>>] < VIEW_WINDOW
    /\ hist.incs[s] = 2
    /\ Count(s) = 2

\* the live cache entry of s holds a smaller count than the counter store
Stale(store, pv, t, s) ==
  /\ KvGet(store, KvKey(s), t) # <<>>
  /\ parseInt(KvGet(store, KvKey(s), t)[1]) < (IF s \in DOMAIN pv THEN pv[s].view_count ELSE 0)

\* the live cache entry of s holds the count of the counter store
Fresh(store, pv, t, s) ==
  KvGet(store, KvKey(s), t) =
    <<NumberToString(IF s \in DOMAIN pv THEN pv[s].view_count ELSE 0)>>

C21_AggregateHasAll ==
  (last.kind \in {"batch", "pbatch"} /\ last.status = 200
     /\ last.src \in {"aggregate", "edge"}) =>
    Range(last.slugs) \subseteq DOMAIN last.views

\* C22: a batch request that missed the aggregate cache and answers leaves the
\* aggregate entry of its slug list written or its write scheduled, so that the same
\* request can be served from the entry afterwards.
C22_AggregateRepopulated ==
  [][ \A r \in BagToSet(reqs) :
        (r.kind \in {"batch", "pbatch"} /\ Leaves(r) /\ last'.status = 200) =>
          \/ r.key \in DOMAIN kv' \cup DOMAIN edge'
          \/ \E t \in BagToSet(tasks') : t.key = r.key
    ]_vars

\* C23: an admitted increment of s leaves every cached batch response as it is and
\* schedules no write of one; a batch read served from such an entry answers the entry's
\* data, which may hold a lower count for s than the counter store, while the entry is
\* live.
C23_IncrementKeepsAggregates ==
  [][ /\ \A s \in Slugs :
           CountAfter(s) # Count(s) =>
             /\ edge' = edge
             /\ kv' = kv
             /\ \A t \in BagToSet(tasks') : t.kind = "edge" => CopiesIn(t, tasks') = CopiesIn(t, tasks)
      /\ (nreq' = nreq + 1 /\ last'.kind = "pbatch" /\ last'.src = "edge" /\ reqs' = reqs) =>
           /\ last'.key \in DOMAIN edge
           /\ edge[last'.key].expiration > now
           /\ last'.views = edge[last'.key].value
    ]_vars

\* a batch read is served a cached response whose count for slug a is lower than the
\* counter store's
C23_Witness ==
  /\ last.kind = "pbatch" /\ last.status = 200 /\ last.src = "edge"
  /\ SlugA \in DOMAIN last.views
  /\ last.views[SlugA] < Count(SlugA)
  /\ last.key \in DOMAIN edge

\* C24 as written: once the write-back of a getView(s) miss has completed, a following
\* getView(s) is a cache hit: while the cache holds a live entry of s, no getView(s)
\* takes the miss path.
C24_Original ==
  [][ \A s \in Slugs :
        KvGet(kv, KvKey(s), now) # <<>> =>
          ~\E r \in BagToSet(reqs') : Arrives(r) /\ r.kind = "get" /\ r.slug = s ]_vars

\* C24 amended: on a single-key cache miss getView(s) answers the counter store's count
\* (0 if absent) and leaves a detached cache write of exactly that count pending, the
\* cache as it is; a write that lands puts the count's text under a TTL of 7 days; and
\* while the entry is live a following getView(s) whose kv.get does not fail is a cache
\* hit answering the entry's value.
C24_ReadThrough ==
  [][ /\ \A r \in BagToSet(reqs) :
           (r.kind = "get" /\ Leaves(r)) =>
             /\ last'.status = 200 /\ last'.slug = r.slug
             /\ last'.count = Count(r.slug)
             /\ tasks' = tasks (+) One(KvTask(r.slug, Count(r.slug)))
             /\ kv' = kv
      /\ \A t \in BagToSet(tasks) :
           (t.kind = "kv" /\ tasks' = tasks (-) One(t) /\ kv' # kv) =>
             /\ KvKey(t.slug) \in DOMAIN kv'
             /\ kv'[KvKey(t.slug)] = [value |-> NumberToString(t.count),
                                      expiration |-> now + 7 * SECONDS_PER_DAY]
             /\ \A k \in DOMAIN kv : k # KvKey(t.slug) => (k \in DOMAIN kv' /\ kv'[k] = kv[k])
      /\ \A s \in Slugs :
           KvGet(kv, KvKey(s), now) # <<>> =>
             /\ \A r \in BagToSet(reqs') :
                  (Arrives(r) /\ r.kind = "get" /\ r.slug = s) => r.kvFailed # {}
             /\ (nreq' = nreq + 1 /\ reqs' = reqs /\ last'.kind = "get" /\ last'.slug = s) =>
                  /\ last'.status = 200 /\ last'.src = "kv"
                  /\ KvGet(kv, KvKey(s), now) = <<NumberToString(last'.count)>>
    ]_vars

\* no view was ever posted: the first getView missed and answered 0, its write-back
\* landed, and the second getView is served 0 from the cache
C24_Witness ==
  /\ nreq = 2 /\ reqs = EmptyBag /\ tasks = EmptyBag
  /\ hist.posts[SlugA] = 0
  /\ last.kind = "get" /\ last.status = 200 /\ last.slug = SlugA
  /\ last.src = "kv" /\ last.count = 0
  /\ KvGet(kv, KvKey(SlugA), now) = <<NumberToString(0)>>

\* C25: the cache never runs ahead of the store: a live single-key cache entry of s
\* holds the text of a count between 0 and the counter store's count of s, and so does
\* every cache write still pending.
C25_CacheNotAhead ==
  \A s \in Slugs :
    /\ KvGet(kv, KvKey(s), now) # <<>> =>
         /\ parseInt(KvGet(kv, KvKey(s), now)[1]) # NaN
         /\ parseInt(KvGet(kv, KvKey(s), now)[1]) >= 0
         /\ parseInt(KvGet(kv, KvKey(s), now)[1]) <= Count(s)
    /\ \A t \in BagToSet(tasks) :
         (t.kind = "kv" /\ t.slug = s) => (t.count >= 0 /\ t.count <= Count(s))

\* two views of one slug are counted and the cache holds the count of the first
C25_Witness ==
  \E s \in Slugs :
    /\ Count(s) = 2
    /\ KvGet(kv, KvKey(s), now) = <<NumberToString(1)>>

\* C26: when no request is in flight and every detached cache write has completed
\* without error, a live single-key cache entry of s holds the counter store's count.
C26_QuiescentCoherent ==
  (reqs = EmptyBag /\ tasks = EmptyBag) =>
    \A s \in Slugs :
      KvGet(kv, KvKey(s), now) # <<>> => KvGet(kv, KvKey(s), now) = <<NumberToString(Count(s))>>

\* C27: every admitted increment of s, whatever else is in flight, takes the counter
\* from its value v to v + 1 and answers v + 1 to its caller, one caller per step; so K
\* admitted increments starting from c answer c + 1, ..., c + K, each value once, and
\* never 0.
C27_DistinctNewCounts ==
  [][ \A r \in BagToSet(reqs) :
        (r.kind = "post" /\ r.pc = "increment" /\ Leaves(r)) =>
          /\ CountAfter(r.slug) = Count(r.slug) + 1
          /\ \A s \in Slugs \ {r.slug} : CountAfter(s) = Count(s)
          /\ BagCardinality(reqs') = BagCardinality(reqs) - 1
          /\ last'.kind = "post" /\ last'.status = 200
          /\ last'.ip = r.ip /\ last'.slug = r.slug
          /\ last'.count = Count(r.slug) + 1
          /\ last'.count = hist'.incs[r.slug]
    ]_vars

\* two increments of one slug were in flight together; the one that finished second was
\* answered 2
C27_Witness ==
  /\ hist.raced
  /\ last.kind = "post" /\ last.status = 200 /\ ~last.cached
  /\ last.count = 2
  /\ hist.incs[last.slug] = 2

\* C28: a view request that ends in a server error leaves the counter and the
\* rate-limit record of its identity and slug as they were: after a failed request for
\* a slug no view of which was ever counted, the identity has no recent rate-limit
\* record for the slug, so its retry is admitted.
C28_FailureKeepsSlot ==
  (reqs = EmptyBag /\ last.kind = "post" /\ last.status = 500
     /\ hist.incs[last.slug] = 0) =>
    /\ Count(last.slug) = 0
    /\ ~RecentView(rate_limits, RateLimitKey(hashString(last.ip), last.slug), now)

\* C29: for every list of comments with distinct ids, nestComments returns a forest in
\* which every comment of the list occurs exactly once, as a root or as a reply reachable
\* from a root: the returned roots reach as many nodes as the list has comments.
C29_EveryCommentOnce ==
  last.kind = "nestComments" =>
    /\ TreeIds(last.result) = InputIds(last.input)
    /\ TreeSize(last.result) = Len(last.input)

\* C30: the total answered by listComments(slug) is countComments(slug), the number of
\* approved comments of the slug, replies at every level included.
C30_TotalIsCount ==
  [][ \A slug \in Slugs :
        ListComments(slug) => last'.total = countBySlug(comments, slug)
    ]_vars

====
